---- MODULE Spec2Model ----
(***************************************************************************)
(* chksound: BS.1770 loudness statistics (src/audio/bs1770.rs), the album  *)
(* aggregator (src/audio/mod.rs) and the parallel batch driver             *)
(* (src/main.rs).                                                          *)
(*                                                                         *)
(* Numbers.  f64 values are carried as exact rationals <<n, d>>, d > 0,    *)
(* in lowest terms.  A Power is measured in units of Power::MIN, so        *)
(* Power::MIN is 1.  A Loudness l is carried by the ratio 10^(l/10):       *)
(* log10 and powf of an arbitrary mean have no finite exact value, the     *)
(* ratio has, and Loudness::MIN = -70 is 10^-7.  A gain g is carried by    *)
(* 10^(-g/10), the factor adjust_gain multiplies its base with, and a      *)
(* gate by 10^(0.1*gate), the factor Power::gate multiplies with.          *)
(***************************************************************************)
EXTENDS Integers, Sequences, FiniteSets, TLC

(***************************************************************************)
(* Bounds of the model.                                                    *)
(***************************************************************************)
\* number of paths the directory walk visits
MaxFiles == 2
\* largest value thread::available_parallelism() returns
MaxPara == 2
\* number of histogram cells (Stats::BIN_COUNT is 7501 cells of 0.01 LU;
\* the model keeps BinCount cells of 10 LU, so that the keys are powers of 10)
BinCount == 4
\* largest pass1_count reached in the Stats specification
MaxCount == 3
\* the partitions of PreFilter::add_block are 1 .. MaxPartition (Analyzer::new
\* passes 4)
MaxPartition == 4
\* the sample rates of the decoder are 10, 20, .. 10 * MaxDecaHz frames a second
MaxDecaHz == 2
\* largest number of channels of a frame
MaxChannels == 2
\* largest number of frames a decoder delivers
MaxFrames == 12
\* largest number of times the tool is run on one file
MaxWrites == 2
\* the Block specification: largest partition, largest overlap_size and
\* largest number of add_sqs calls of a Block
MaxRing == 3
MaxOverlap == 2
MaxCalls == 8
\* the ring specification: largest number of frames given to the PreFilter
MaxSamples == 12

(***************************************************************************)
(* Exact rational arithmetic standing for f64.                             *)
(***************************************************************************)
RECURSIVE GCD(_, _)
GCD(a, b) ==
    IF b = 0 THEN a ELSE GCD(b, a % b)

Abs(n) ==
    IF n < 0 THEN -n ELSE n

\* The operations below bind their operands in a one-element set, so that an
\* operand is evaluated once however often the operation reads it (TLC
\* re-evaluates an argument at each of its uses inside ENABLED).
Rat(n, d) ==
    LET Reduce(p) == LET g == GCD(Abs(p[1]), p[2])
                     IN  IF p[1] = 0 THEN <<0, 1>> ELSE <<p[1] \div g, p[2] \div g>>
    IN  CHOOSE r \in {Reduce(v) : v \in {<<n, d>>}} : TRUE

R(n) ==
    <<n, 1>>

RAdd(a, b) ==
    LET Add(p) == Rat(p[1][1] * p[2][2] + p[2][1] * p[1][2], p[1][2] * p[2][2])
    IN  CHOOSE r \in {Add(v) : v \in {<<a, b>>}} : TRUE

RSub(a, b) ==
    LET Sub(p) == Rat(p[1][1] * p[2][2] - p[2][1] * p[1][2], p[1][2] * p[2][2])
    IN  CHOOSE r \in {Sub(v) : v \in {<<a, b>>}} : TRUE

\* cross-cancelling keeps the intermediate products small
RMul(a, b) ==
    LET Mul(p) ==
            LET g1 == IF p[1][1] = 0 THEN 1 ELSE GCD(Abs(p[1][1]), p[2][2])
                g2 == IF p[2][1] = 0 THEN 1 ELSE GCD(Abs(p[2][1]), p[1][2])
            IN  Rat((p[1][1] \div g1) * (p[2][1] \div g2),
                    (p[1][2] \div g2) * (p[2][2] \div g1))
    IN  CHOOSE r \in {Mul(v) : v \in {<<a, b>>}} : TRUE

\* division by a usize n > 0
RDivInt(a, n) ==
    RMul(a, <<1, n>>)

RLess(a, b) ==
    LET Less(p) == p[1][1] * p[2][2] < p[2][1] * p[1][2]
    IN  CHOOSE r \in {Less(v) : v \in {<<a, b>>}} : TRUE

RMax(a, b) ==
    LET Max(p) == IF RLess(p[1], p[2]) THEN p[2] ELSE p[1]
    IN  CHOOSE r \in {Max(v) : v \in {<<a, b>>}} : TRUE

\* f64::round of a value: to the nearest integer, halves away from zero
RRound(a) ==
    LET Round(x) == IF x[1] >= 0
                    THEN (2 * x[1] + x[2]) \div (2 * x[2])
                    ELSE -((2 * (-x[1]) + x[2]) \div (2 * x[2]))
    IN  CHOOSE r \in {Round(v) : v \in {a}} : TRUE

\* `as i32` of a value in the i32 range: truncation toward zero
RTrunc(a) ==
    LET Trunc(x) == IF x[1] >= 0 THEN x[1] \div x[2] ELSE -((-x[1]) \div x[2])
    IN  CHOOSE r \in {Trunc(v) : v \in {a}} : TRUE

RECURSIVE Pow10(_)
Pow10(i) ==
    IF i = 0 THEN 1 ELSE 10 * Pow10(i - 1)

(***************************************************************************)
(* Option<T>: None is the empty tuple, Some(x) the one-element tuple.      *)
(***************************************************************************)
None ==
    <<>>

Some(x) ==
    <<x>>

(***************************************************************************)
(* Power and Loudness (bs1770.rs)                                          *)
(***************************************************************************)
PowerMIN ==
    R(1)

\* Loudness(-70.0)
LoudnessMIN ==
    <<1, 10000000>>

\* impl From<Power> for Loudness: -0.691 + 10 log10(p); Power::MIN is -70 LU
LoudnessFromPower(p) ==
    RMul(p, LoudnessMIN)

\* impl From<Loudness> for Power: 10^(0.1 * (0.691 + l))
PowerFromLoudness(l) ==
    RMul(l, <<LoudnessMIN[2], LoudnessMIN[1]>>)

\* impl Add<f64> for Loudness, for an offset of steps * 10 LU
Loudness_add(self, steps) ==
    RMul(self, R(Pow10(steps)))

\* Power::gate(self, gate) = self * 10^(0.1 * gate); gate is given as 10^(0.1*gate)
Power_gate(self, gate) ==
    RMul(self, gate)

\* the gate -10.0 of get_mean(-10.0): 10^(0.1 * -10) = 1/10
GateMinus10 ==
    <<1, 10>>

\* 10^1.8 = 63.0957..., to three digits
TenPow18 ==
    <<631, 10>>

\* Loudness::to_gain: -18.0 - l, i.e. 10^(-gain/10) = 10^1.8 * 10^(l/10)
Loudness_to_gain(self) ==
    RMul(self, TenPow18)

(***************************************************************************)
(* Stats (bs1770.rs)                                                       *)
(***************************************************************************)
Bins ==
    1 .. BinCount

\* the lower edge of cell i, Loudness::MIN + (i-1) * step, and its key, db.into()
BinDb(i) ==
    Loudness_add(LoudnessMIN, i - 1)

BinKeys ==
    [i \in Bins |-> PowerFromLoudness(BinDb(i))]

BinKey(i) ==
    BinKeys[i]

Stats_new ==
    [ max_wmsq    |-> PowerMIN,
      pass1_wmsq  |-> R(0),
      pass1_count |-> 0,
      bins        |-> [i \in Bins |-> [db |-> BinDb(i), count |-> 0]] ]

\* bins.range_mut(..=wmsq).last(): the cells whose key is <= wmsq
RangeTo(wmsq) ==
    {i \in Bins : ~RLess(wmsq, BinKey(i))}

SetMax(S) ==
    CHOOSE x \in S : \A y \in S : y <= x


\* a merge that takes the plain mean of the two running means
Stats_merge_PlainMean(self, rhs) ==
    LET max   == IF RLess(self.max_wmsq, rhs.max_wmsq) THEN rhs.max_wmsq ELSE self.max_wmsq
        count == self.pass1_count + rhs.pass1_count
    IN  IF 0 < count
        THEN [ max_wmsq    |-> max,
               pass1_wmsq  |-> RDivInt(RAdd(self.pass1_wmsq, rhs.pass1_wmsq), 2),
               pass1_count |-> count,
               bins        |-> [i \in Bins |->
                                  [self.bins[i] EXCEPT !.count = @ + rhs.bins[i].count]] ]
        ELSE [self EXCEPT !.max_wmsq = max]

\* a merge that sums pass1_count and leaves the cells of self as they are
Stats_merge_NoBins(self, rhs) ==
    LET max   == IF RLess(self.max_wmsq, rhs.max_wmsq) THEN rhs.max_wmsq ELSE self.max_wmsq
        count == self.pass1_count + rhs.pass1_count
    IN  [self EXCEPT !.max_wmsq = max, !.pass1_count = count]

Stats_merge(self, rhs) ==
    LET max   == IF RLess(self.max_wmsq, rhs.max_wmsq) THEN rhs.max_wmsq ELSE self.max_wmsq
        count == self.pass1_count + rhs.pass1_count
        q1    == Rat(self.pass1_count, count)
        q2    == Rat(rhs.pass1_count, count)
    IN  IF 0 < count
        THEN [ max_wmsq    |-> max,
               pass1_wmsq  |-> RAdd(RMul(self.pass1_wmsq, q1), RMul(rhs.pass1_wmsq, q2)),
               pass1_count |-> count,
               bins        |-> [i \in Bins |->
                                  [self.bins[i] EXCEPT !.count = @ + rhs.bins[i].count]] ]
        ELSE [self EXCEPT !.max_wmsq = max]

\* an add_sqs that leaves max_wmsq as it is
Stats_add_sqs_KeepMax(self, wmsq) ==
    LET hit == RangeTo(wmsq)
        n   == self.pass1_count + 1
    IN  IF hit # {}
        THEN [ max_wmsq    |-> self.max_wmsq,
               pass1_wmsq  |-> RAdd(self.pass1_wmsq,
                                    RDivInt(RSub(wmsq, self.pass1_wmsq), n)),
               pass1_count |-> n,
               bins        |-> [self.bins EXCEPT ![SetMax(hit)].count = @ + 1] ]
        ELSE self

\* an add_sqs that counts every power in the lowest cell
Stats_add_sqs_LowestCell(self, wmsq) ==
    LET max == IF RLess(self.max_wmsq, wmsq) THEN wmsq ELSE self.max_wmsq
        hit == RangeTo(wmsq)
        n   == self.pass1_count + 1
    IN  IF hit # {}
        THEN [ max_wmsq    |-> max,
               pass1_wmsq  |-> RAdd(self.pass1_wmsq,
                                    RDivInt(RSub(wmsq, self.pass1_wmsq), n)),
               pass1_count |-> n,
               bins        |-> [self.bins EXCEPT ![1].count = @ + 1] ]
        ELSE [self EXCEPT !.max_wmsq = max]

Stats_add_sqs(self, wmsq) ==
    LET max == IF RLess(self.max_wmsq, wmsq) THEN wmsq ELSE self.max_wmsq
        hit == RangeTo(wmsq)
        n   == self.pass1_count + 1
    IN  IF hit # {}
        THEN [ max_wmsq    |-> max,
               pass1_wmsq  |-> RAdd(self.pass1_wmsq,
                                    RDivInt(RSub(wmsq, self.pass1_wmsq), n)),
               pass1_count |-> n,
               bins        |-> [self.bins EXCEPT ![SetMax(hit)].count = @ + 1] ]
        ELSE [self EXCEPT !.max_wmsq = max]

\* the cells get_mean counts: those that hold blocks and lie above the gate
Gated(self, threshold, i) ==
    0 < self.bins[i].count /\ RLess(threshold, BinKey(i))

\* the two components of the fold of get_mean over the first i cells:
\* the sum of key * count and the sum of count
RECURSIVE GatedPower(_, _, _)
GatedPower(self, threshold, i) ==
    IF i = 0
    THEN R(0)
    ELSE RAdd(GatedPower(self, threshold, i - 1),
              IF Gated(self, threshold, i)
              THEN RMul(BinKey(i), R(self.bins[i].count))
              ELSE R(0))

RECURSIVE GatedCount(_, _, _)
GatedCount(self, threshold, i) ==
    IF i = 0
    THEN 0
    ELSE GatedCount(self, threshold, i - 1)
         + (IF Gated(self, threshold, i) THEN self.bins[i].count ELSE 0)

\* a get_mean that takes the lower edge of the highest counted cell
Stats_get_mean_Top(self, gate) ==
    LET threshold == Power_gate(self.pass1_wmsq, gate)
        S         == {i \in Bins : Gated(self, threshold, i)}
    IN  IF S # {}
        THEN LoudnessFromPower(BinKey(SetMax(S)))
        ELSE LoudnessMIN

Stats_get_mean(self, gate) ==
    LET threshold == Power_gate(self.pass1_wmsq, gate)
    IN  IF 0 < GatedCount(self, threshold, BinCount)
        THEN LoudnessFromPower(RDivInt(GatedPower(self, threshold, BinCount),
                                       GatedCount(self, threshold, BinCount)))
        ELSE LoudnessMIN

\* Loudness(0.0)
LoudnessZero ==
    R(1)

\* impl Sub<Self> for Loudness: the difference in LU, carried as the ratio
Loudness_sub(self, rhs) ==
    RMul(self, <<rhs[2], rhs[1]>>)

\* the gate -inf: 10^(0.1 * -inf) = 0
GateMinusInf ==
    R(0)

\* the fold of get_range over the first i cells: <<count, min, max>>
RECURSIVE RangeFold(_, _, _, _, _)
RangeFold(self, threshold, lower_count, upper_count, i) ==
    IF i = 0
    THEN <<0, LoudnessZero, LoudnessZero>>
    ELSE LET a     == RangeFold(self, threshold, lower_count, upper_count, i - 1)
             bin   == self.bins[i]
             count == a[1] + bin.count
         IN  IF RLess(threshold, BinKey(i))
             THEN << count,
                     IF a[1] < lower_count /\ lower_count <= count THEN bin.db ELSE a[2],
                     IF a[1] < upper_count /\ upper_count <= count THEN bin.db ELSE a[3] >>
             ELSE a

\* f64::min
RMin(a, b) ==
    LET Min(p) == IF RLess(p[2], p[1]) THEN p[2] ELSE p[1]
    IN  CHOOSE r \in {Min(v) : v \in {<<a, b>>}} : TRUE

\* quantiles clamped at both ends, each into [0, 1]
Quantiles_Clamped(lower, upper) ==
    << RMin(RMax(RMin(lower, upper), R(0)), R(1)),
       RMax(RMin(RMax(upper, lower), R(1)), R(0)) >>

\* get_range: (lower.min(upper).max(0.0), upper.max(lower).min(1.0))
Quantiles(lower, upper) ==
    << RMax(RMin(lower, upper), R(0)), RMin(RMax(upper, lower), R(1)) >>

\* `as usize` of an f64: truncation, and 0 for a negative value
AsUsize(a) ==
    IF a[1] < 0 THEN 0 ELSE RTrunc(a)

Stats_get_range(self, gate, lower, upper) ==
    LET threshold   == Power_gate(self.pass1_wmsq, gate)
        count       == GatedCount(self, threshold, BinCount)
        q           == Quantiles(lower, upper)
        lower_count == AsUsize(RMul(R(count), q[1]))
        upper_count == AsUsize(RMul(R(count), q[2]))
        a           == RangeFold(self, threshold, lower_count, upper_count, BinCount)
    IN  IF count = 0
        THEN LoudnessZero
        ELSE Loudness_sub(a[3], a[2])

RECURSIVE SumBins(_, _)
SumBins(self, i) ==
    IF i = 0 THEN 0 ELSE SumBins(self, i - 1) + self.bins[i].count

(***************************************************************************)
(* Block, PreFilter (bs1770.rs) and Analyzer (audio/mod.rs).  ring_wmsq is *)
(* indexed from 0 as the Vec is.  The ring_buf of the PreFilter, which     *)
(* holds the last inputs and outputs of the two biquads, is kept as one    *)
(* flag, quiet: TRUE while it holds nothing but 0.0.                       *)
(***************************************************************************)
\* a complete block in place of the first one of the ring
Block_new_Full(overlap_size, partition) ==
    [ stats        |-> Stats_new,
      gate         |-> PowerMIN,
      overlap_size |-> overlap_size,
      scale        |-> Rat(1, partition * overlap_size),
      ring_size    |-> partition,
      ring_used    |-> partition,
      ring_count   |-> 0,
      ring_offs    |-> 0,
      ring_wmsq    |-> [i \in 0 .. partition - 1 |-> R(0)] ]

Block_new(overlap_size, partition) ==
    [ stats        |-> Stats_new,
      gate         |-> PowerMIN,
      overlap_size |-> overlap_size,
      scale        |-> Rat(1, partition * overlap_size),
      ring_size    |-> partition,
      ring_used    |-> 1,
      ring_count   |-> 0,
      ring_offs    |-> 0,
      ring_wmsq    |-> [i \in 0 .. partition - 1 |-> R(0)] ]

\* Block::add_sqs is about to reach `if self.ring_used == self.ring_size`
\* with the condition true: the block at next_offs is complete
Block_complete(self) ==
    /\ self.ring_count + 1 = self.overlap_size
    /\ self.ring_used = self.ring_size

\* the offset of the block after the front one
Block_next_offs(self) ==
    IF self.ring_offs + 1 < self.ring_size THEN self.ring_offs + 1 ELSE 0

\* ring_wmsq after the loop of add_sqs that adds wssqs * scale to the blocks
\* in use
Block_ring(self, wssqs) ==
    LET wssqs_scaled == RMul(wssqs, self.scale)
    IN  [i \in DOMAIN self.ring_wmsq |->
            IF i < self.ring_used
            THEN RAdd(self.ring_wmsq[i], wssqs_scaled)
            ELSE self.ring_wmsq[i]]

\* prev_wmsq of add_sqs: the power of the block at next_offs
Block_prev_wmsq(self, wssqs) ==
    Block_ring(self, wssqs)[Block_next_offs(self)]

\* add_sqs that leaves the block at next_offs as it is instead of zeroing it
Block_add_sqs_NoReset(self, wssqs) ==
    LET ring == Block_ring(self, wssqs)
        prev_wmsq == Block_prev_wmsq(self, wssqs)
    IN  IF self.ring_count + 1 = self.overlap_size
        THEN [self EXCEPT
                !.stats = IF /\ self.ring_used = self.ring_size
                             /\ RLess(self.gate, prev_wmsq)
                          THEN Stats_add_sqs(@, prev_wmsq)
                          ELSE @,
                !.ring_wmsq = ring,
                !.ring_count = 0,
                !.ring_offs = Block_next_offs(self),
                !.ring_used = IF @ < self.ring_size THEN @ + 1 ELSE @]
        ELSE [self EXCEPT !.ring_wmsq = ring, !.ring_count = self.ring_count + 1]

\* add_sqs whose gate lets a block of exactly the gate's power pass
Block_add_sqs_GateIncluded(self, wssqs) ==
    LET ring == Block_ring(self, wssqs)
        next_offs == Block_next_offs(self)
        prev_wmsq == Block_prev_wmsq(self, wssqs)
    IN  IF self.ring_count + 1 = self.overlap_size
        THEN [self EXCEPT
                !.stats = IF /\ self.ring_used = self.ring_size
                             /\ ~RLess(prev_wmsq, self.gate)
                          THEN Stats_add_sqs(@, prev_wmsq)
                          ELSE @,
                !.ring_wmsq = [ring EXCEPT ![next_offs] = R(0)],
                !.ring_count = 0,
                !.ring_offs = next_offs,
                !.ring_used = IF @ < self.ring_size THEN @ + 1 ELSE @]
        ELSE [self EXCEPT !.ring_wmsq = ring, !.ring_count = self.ring_count + 1]

Block_add_sqs(self, wssqs) ==
    LET ring == Block_ring(self, wssqs)
        ring_count == self.ring_count + 1
        next_offs == Block_next_offs(self)
        prev_wmsq == Block_prev_wmsq(self, wssqs)
    IN  IF ring_count = self.overlap_size
        THEN [self EXCEPT
                !.stats = IF /\ self.ring_used = self.ring_size
                             /\ RLess(self.gate, prev_wmsq)
                          THEN Stats_add_sqs(@, prev_wmsq)
                          ELSE @,
                !.ring_wmsq = [ring EXCEPT ![next_offs] = R(0)],
                !.ring_count = 0,
                !.ring_offs = next_offs,
                !.ring_used = IF @ < self.ring_size THEN @ + 1 ELSE @]
        ELSE [self EXCEPT !.ring_wmsq = ring, !.ring_count = ring_count]

\* PreFilter::MAX_CHANNELS
MAX_CHANNELS ==
    5

PreFilter_new(sample_rate, channels) ==
    [ block       |-> <<>>,
      sample_rate |-> sample_rate,
      channels    |-> IF channels < MAX_CHANNELS THEN channels ELSE MAX_CHANNELS,
      ring_size   |-> 1,
      quiet       |-> TRUE ]

PreFilter_add_block(self, length, partition) ==
    LET overlap_size == RRound(RDivInt(RMul(length, R(self.sample_rate)), partition))
    IN  [self EXCEPT !.block = Append(@, Block_new(overlap_size, partition))]

\* the samples of a frame the filter reads, sample.iter().take(self.channels),
\* are all 0.0
ZeroFrame(self, sample) ==
    \A ch \in 1 .. Len(sample) : ch <= self.channels => sample[ch] = R(0)

\* the energy of a frame of which the biquads give a non-zero output
LoudEnergy ==
    R(40)

\* a filter that rings when it holds nothing: a zero frame may have energy
PreFilter_wssqs_Noise(self, sample) ==
    IF 1 < self.ring_size THEN {R(0), LoudEnergy} ELSE {R(0)}

\* the values wssqs may have after the loop over the channels in add_sample:
\* 0.0 while the filter is skipped (the first frame) and while its inputs and
\* its state are all 0.0; otherwise what the biquads compute, which is left
\* open here between no energy and LoudEnergy
PreFilter_wssqs(self, sample) ==
    IF 1 < self.ring_size /\ ~(self.quiet /\ ZeroFrame(self, sample))
    THEN {R(0), LoudEnergy}
    ELSE {R(0)}

\* PreFilter::add_sample, for the value wssqs has after the channel loop
PreFilter_add_sample(self, sample, wssqs) ==
    [self EXCEPT
        !.block = [i \in DOMAIN @ |-> Block_add_sqs(@[i], wssqs)],
        !.ring_size = IF @ < 2 THEN @ + 1 ELSE @,
        !.quiet = @ /\ ZeroFrame(self, sample)]

\* &[0.0; Self::MAX_CHANNELS]
FlushFrame ==
    [ch \in 1 .. MAX_CHANNELS |-> R(0)]

\* the PreFilter when flush maps its blocks to their stats
PreFilter_flush(self, wssqs) ==
    IF 1 < self.ring_size
    THEN PreFilter_add_sample(self, FlushFrame, wssqs)
    ELSE self

(***************************************************************************)
(* The ring_buf of the PreFilter (bs1770.rs 466-551), for one channel.     *)
(* Every channel has a buffer of its own and all use the same indices.  A  *)
(* slot holds which value was stored in it rather than the number: the     *)
(* input x, the output y of f1 or the output z of f2, of which frame, and  *)
(* for an input the sample.                                                *)
(***************************************************************************)
\* PreFilter::BUF_SIZE
BUF_SIZE ==
    9

x_(offs, i) ==
    IF offs + i < 0 THEN BUF_SIZE + offs + i ELSE offs + i

\* a y_ that lies one slot, not six, behind x_
y_Near(offs, i) ==
    x_(offs - 1, i)

y_(offs, i) ==
    x_(offs - 6, i)

z_(offs, i) ==
    x_(offs - 3, i)

\* Power(0.0), which fills ring_buf at first
Unwritten ==
    [role |-> "none", frame |-> 0, sample |-> R(0)]

\* the values add_sample stores for its n-th frame
Slot_x(n, sample) ==
    [role |-> "x", frame |-> n, sample |-> sample]

Slot_y(n) ==
    [role |-> "y", frame |-> n, sample |-> R(0)]

Slot_z(n) ==
    [role |-> "z", frame |-> n, sample |-> R(0)]

\* PreFilter::new, the three fields of the ring
Ring_new ==
    [ ring_offs |-> 1,
      ring_size |-> 1,
      ring_buf  |-> [i \in 0 .. BUF_SIZE - 1 |-> Unwritten] ]

\* the buffer after buf[x_(offs, 0)] = Power(*sample)
Ring_x(self, n, sample) ==
    [self.ring_buf EXCEPT ![x_(self.ring_offs, 0)] = Slot_x(n, sample)]

\* the buffer after buf[y_(offs, 0)] = ..
Ring_y(self, n, sample) ==
    [Ring_x(self, n, sample) EXCEPT ![y_(self.ring_offs, 0)] = Slot_y(n)]

\* what the right-hand sides of y and z read for the n-th frame: f1 reads
\* x[-1], x[-2], y[-1], y[-2] before y[0] is stored, f2 reads y[-1], y[-2],
\* z[-1], z[-2] after it
Ring_reads(self, n, sample) ==
    LET offs == self.ring_offs
        bx   == Ring_x(self, n, sample)
        by   == Ring_y(self, n, sample)
    IN  [ x1 |-> bx[x_(offs, -1)], x2 |-> bx[x_(offs, -2)],
          y1 |-> bx[y_(offs, -1)], y2 |-> bx[y_(offs, -2)],
          v1 |-> by[y_(offs, -1)], v2 |-> by[y_(offs, -2)],
          z1 |-> by[z_(offs, -1)], z2 |-> by[z_(offs, -2)] ]

\* PreFilter::add_sample on the ring, for the n-th frame
Ring_add_sample(self, n, sample) ==
    LET offs == self.ring_offs
    IN  [ ring_offs |-> IF offs + 1 = BUF_SIZE THEN 0 ELSE offs + 1,
          ring_size |-> IF self.ring_size < 2 THEN self.ring_size + 1
                        ELSE self.ring_size,
          ring_buf  |-> IF 1 < self.ring_size
                        THEN [Ring_y(self, n, sample) EXCEPT
                                 ![z_(offs, 0)] = Slot_z(n)]
                        ELSE Ring_x(self, n, sample) ]

\* f64::abs
RAbs(a) ==
    <<Abs(a[1]), a[2]>>

\* 0.4, the length Analyzer::new passes to add_block
BlockLength ==
    <<2, 5>>

\* Analyzer::new, for the partition it passes to add_block (4 in the source)
Analyzer_new(sampling_rate, channels, partition) ==
    [ filter |-> PreFilter_add_block(PreFilter_new(sampling_rate, channels),
                                     BlockLength, partition),
      peak   |-> R(0) ]

\* sample.iter().map(|f| f.abs()).max_by(..): the largest |f| of a frame that
\* has a sample (unwrap panics on a frame without one)
MaxAbs(sample) ==
    CHOOSE m \in {RAbs(sample[ch]) : ch \in 1 .. Len(sample)} :
        \A ch \in 1 .. Len(sample) : ~RLess(m, RAbs(sample[ch]))

\* an add_sample that keeps the peak of the last frame only
Analyzer_add_sample_LastFrame(self, sample, wssqs) ==
    [ filter |-> PreFilter_add_sample(self.filter, sample, wssqs),
      peak   |-> MaxAbs(sample) ]

Analyzer_add_sample(self, sample, wssqs) ==
    [ filter |-> PreFilter_add_sample(self.filter, sample, wssqs),
      peak   |-> RMax(MaxAbs(sample), self.peak) ]

\* Analyzer::flush: (self.filter.flush().pop().unwrap(), self.peak)
Analyzer_flush(self, wssqs) ==
    LET filter == PreFilter_flush(self.filter, wssqs)
    IN  [stats |-> filter.block[Len(filter.block)].stats, peak |-> self.peak]

(***************************************************************************)
(* Aggregator (audio/mod.rs) and the formatter (main.rs)                   *)
(***************************************************************************)
Aggregator_default ==
    [stats |-> Stats_new, peak |-> R(0)]


\* an aggregate that assigns the Stats instead of merging them
Aggregator_aggregate_Assign(self, stats, peak) ==
    [stats |-> stats, peak |-> RMax(self.peak, peak)]

Aggregator_aggregate(self, stats, peak) ==
    [stats |-> Stats_merge(self.stats, stats), peak |-> RMax(self.peak, peak)]

\* adjust_gain without .min(65534.0)
adjust_gain_NoMin(gain, base) ==
    RRound(RMul(gain, R(base)))

\* (10^(-gain/10) * base).round().min(65534.0) as i32
adjust_gain(gain, base) ==
    LET r == RRound(RMul(gain, R(base)))
    IN  IF r < 65534 THEN r ELSE 65534

\* (peak * 32768.0) as i32
PeakField(peak) ==
    RTrunc(RMul(peak, R(32768)))

\* the ten fields of the format! of run, before their {:08X} rendering
Normalization(track_gain, album_gain, track_peak, album_peak) ==
    << adjust_gain(track_gain, 1000), adjust_gain(album_gain, 1000),
       adjust_gain(track_gain, 2500), adjust_gain(album_gain, 2500),
       0, 0, track_peak, album_peak, 0, 0 >>

\* the digits of {:X}; a character is a string of length one
HexDigits ==
    << "0", "1", "2", "3", "4", "5", "6", "7",
       "8", "9", "A", "B", "C", "D", "E", "F" >>

\* n >= 0 in base 16, most significant digit first, padded with "0" to width
RECURSIVE HexPad(_, _)
HexPad(n, width) ==
    IF n < 16 /\ width <= 1
    THEN <<HexDigits[n + 1]>>
    ELSE Append(HexPad(n \div 16, width - 1), HexDigits[(n % 16) + 1])

\* {:X} without the width: no padding
Hex08_Unpadded(n) ==
    HexPad(n, 1)

\* {:08X} of an i32: at least 8 digits; a negative value is printed as the
\* u32 with the same bits, n + 2^32, whose top digit is 8 + (n + 2^31) / 2^28
Hex08(n) ==
    IF n >= 0
    THEN HexPad(n, 8)
    ELSE LET m == (n + 2147483647) + 1
         IN  <<HexDigits[m \div 268435456 + 9]>> \o HexPad(m % 268435456, 7)

\* the literal 00000000 of the format string
Zeros8 ==
    << "0", "0", "0", "0", "0", "0", "0", "0" >>

\* the format string without its first character
format_normalization_NoLead(a, b, c, d, e, f) ==
    Hex08(a) \o <<" ">> \o Hex08(b) \o <<" ">> \o Hex08(c)
        \o <<" ">> \o Hex08(d) \o <<" ">> \o Zeros8 \o <<" ">> \o Zeros8
        \o <<" ">> \o Hex08(e) \o <<" ">> \o Hex08(f)
        \o <<" ">> \o Zeros8 \o <<" ">> \o Zeros8

\* format!(" {:08X} {:08X} {:08X} {:08X} 00000000 00000000 {:08X} {:08X}
\* 00000000 00000000", a, b, c, d, e, f): the String, character by character
format_normalization(a, b, c, d, e, f) ==
    <<" ">> \o Hex08(a) \o <<" ">> \o Hex08(b) \o <<" ">> \o Hex08(c)
        \o <<" ">> \o Hex08(d) \o <<" ">> \o Zeros8 \o <<" ">> \o Zeros8
        \o <<" ">> \o Hex08(e) \o <<" ">> \o Hex08(f)
        \o <<" ">> \o Zeros8 \o <<" ">> \o Zeros8

(***************************************************************************)
(* Inputs of the driver: the tags a file may carry and what its decoder    *)
(* may deliver.  A string is the sequence of its characters, 0 being NUL.  *)
(***************************************************************************)
TagChoices ==
    { [compilation |-> FALSE, artist |-> Some(<<1>>), album |-> Some(<<2>>)],
      [compilation |-> TRUE,  artist |-> Some(<<1>>), album |-> Some(<<2>>)],
      [compilation |-> FALSE, artist |-> Some(<<>>),  album |-> Some(<<2>>)],
      [compilation |-> FALSE, artist |-> None,        album |-> Some(<<2>>)],
      [compilation |-> FALSE, artist |-> Some(<<1>>), album |-> None] }

RECURSIVE FoldAdd(_, _)
FoldAdd(self, powers) ==
    IF powers = <<>> THEN self
    ELSE FoldAdd(Stats_add_sqs(self, Head(powers)), Tail(powers))

\* the gated block powers and the sample peak of the audio of file id
Content(id) ==
    IF id % 2 = 1
    THEN [powers |-> <<R(100)>>, peak |-> <<3, 65536>>]
    ELSE [powers |-> <<R(1000), R(10)>>, peak |-> <<1, 2>>]

\* what Analyzer::flush returns, (Stats, peak), for audio that is silent: no
\* block passes the gate
Silence ==
    [stats |-> Stats_new, peak |-> R(0)]

\* what Analyzer::flush returns for the audio Content(id)
Audio ==
    [ id \in 1 .. MaxFiles |->
        [stats |-> FoldAdd(Stats_new, Content(id).powers), peak |-> Content(id).peak] ]

VARIABLES
    mainPc,     \* where the main thread stands in main/run
    exit,       \* the ExitCode of main, None while running
    para,       \* thread::available_parallelism()
    nextPath,   \* the next path of the walk, 1 .. MaxFiles + 1
    pending,    \* the Entry process_file is sending, if any
    map,        \* group key -> the Arc<Mutex<Aggregator>> created for it
    tx1,        \* TRUE while the work queue's Sender is alive
    queue,      \* every entry sent on the bounded work queue (tx1, rx1), in order
    taken,      \* how many of them the workers have received
    idle,       \* number of analyzer threads waiting in rx.iter()
    busy,       \* the locals of the analyzer threads that hold an entry:
                \* where the loop body stands (pc), entry, stats, peak
    exited,     \* number of analyzer threads that have returned
    results,    \* every entry sent on the unbounded result channel (tx2, rx2)
    consumed,   \* how many of them run has received
    norm,       \* file -> the texts set_normalization was called with
    saved,      \* file -> the outcomes of its save calls
    log,        \* what log::error! reported: <<path, the function logging it>>
    s1, s2,     \* two Stats, for the Stats specification
    lastOp,     \* the operation that produced s1
    r1,         \* the Stats that got every power behind s1 by add_sqs alone
    in2,        \* the powers added to s2, in order
    out,        \* what get_mean and get_range last returned for s2, if asked
                \* since s2 changed
    an,         \* the Analyzer a thread built for a file, None before
    fed,        \* number of frames the decoder has delivered to it
    zeros,      \* TRUE while every sample delivered was 0.0
    calls,      \* number of Block::add_sqs calls made so far
    fin,        \* the calls, by number, that found a complete block
    ret,        \* what Analyzer::flush returned, None before
    fmtIn,      \* the gains and peaks of an entry the consumer formats
    fmtOut,     \* the arguments of format! and the text it produced
    tagFile,    \* the file a tag was read from: its kind and its tag
    opened,     \* the tag as it was read
    once,       \* the tag after the first set_normalization
    texts,      \* the texts set_normalization was called with, in order
    blk,        \* a Block on its own, None before Block::new
    energies,   \* the values Block::add_sqs was called with, in order
    done,       \* the complete blocks: the call that found each, and its power
    sent,       \* the wssqs of the first two frames the PreFilter was fed
    seen,       \* every sample value the decoder has delivered
    rangeOut,   \* the quantiles get_range was given, those it used, and its result
    recvd,      \* file -> how many times a worker received its entry
    analyzed,   \* file -> how many times its audio was analyzed to the end
    merged,     \* file -> how many times it was aggregated
    pf,         \* the ring of a PreFilter: ring_offs, ring_size and one channel's buffer
    pfIn,       \* the samples of that channel, one per frame, in order
    pfRead      \* what the last frame's filters read from the buffer, if they ran

driverVars ==
    << mainPc, exit, para, nextPath, pending, map, tx1, queue, taken,
       idle, busy, exited, results, consumed, norm, saved, log >>

statsVars ==
    << s1, s2, lastOp, r1, in2, out >>

analyzerVars ==
    << an, fed, zeros, calls, fin, ret >>

fmtVars ==
    << fmtIn, fmtOut >>

tagVars ==
    << tagFile, opened, once, texts >>

blockVars ==
    << blk, energies, done >>

frameVars ==
    << sent, seen >>

rangeVars ==
    << rangeOut >>

onceVars ==
    << recvd, analyzed, merged >>

ringVars ==
    << pf, pfIn, pfRead >>

unitVars ==
    << statsVars, analyzerVars, fmtVars, tagVars, blockVars, frameVars, rangeVars,
       onceVars, ringVars >>

vars ==
    << driverVars, unitVars >>

Files ==
    1 .. MaxFiles

\* Entry::new
Entry_new(file, aggregator) ==
    [file |-> file, aggregator |-> aggregator, stats |-> None, peak |-> None]

\* everything but the entry the consumer formats
InitButEntry ==
    /\ mainPc = "start"
    /\ exit = None
    /\ para = 0
    /\ nextPath = 1
    /\ pending = None
    /\ map = <<>>
    /\ tx1 = TRUE
    /\ queue = <<>>
    /\ taken = 0
    /\ idle = 0
    /\ busy = {}
    /\ exited = 0
    /\ results = <<>>
    /\ consumed = 0
    /\ norm = [f \in Files |-> <<>>]
    /\ saved = [f \in Files |-> <<>>]
    /\ log = {}
    /\ s1 = Stats_new
    /\ s2 = Stats_new
    /\ lastOp = "new"
    /\ r1 = Stats_new
    /\ in2 = <<>>
    /\ out = None
    /\ an = None
    /\ fed = 0
    /\ zeros = TRUE
    /\ calls = 0
    /\ fin = <<>>
    /\ ret = None
    /\ fmtOut = None
    /\ tagFile = None
    /\ opened = None
    /\ once = None
    /\ texts = <<>>
    /\ blk = None
    /\ energies = <<>>
    /\ done = <<>>
    /\ sent = <<>>
    /\ seen = {}
    /\ rangeOut = None
    /\ recvd = [id \in Files |-> 0]
    /\ analyzed = [id \in Files |-> 0]
    /\ merged = [id \in Files |-> 0]
    /\ pf = Ring_new
    /\ pfIn = <<>>
    /\ pfRead = None

Init ==
    /\ InitButEntry
    /\ fmtIn = None

(***************************************************************************)
(* main and run (main.rs 21-108): the main thread                          *)
(***************************************************************************)
\* Mutex::new(Aggregator::default()); owner is the file of the entry whose
\* thread holds the guard
Mutex_new(data) ==
    [data |-> data, owner |-> None]

\* available_parallelism() succeeds: channels are created, threads spawned
RunStart(p) ==
    /\ mainPc = "start"
    /\ para' = p
    /\ idle' = p
    /\ mainPc' = "walk"
    /\ UNCHANGED <<exit, nextPath, pending, map, tx1, queue, taken, busy, exited,
                   results, consumed, norm, saved, log, unitVars>>

\* available_parallelism()? fails: run returns Err, main logs and fails
RunFail ==
    /\ mainPc = "start"
    /\ mainPc' = "done"
    /\ exit' = Some("FAILURE")
    /\ log' = log \cup {<<0, "main">>}
    /\ UNCHANGED <<para, nextPath, pending, map, tx1, queue, taken, idle, busy,
                   exited, results, consumed, norm, saved, unitVars>>

\* format!("{}\0{}", artist, album)
Group(artist, album) ==
    artist \o <<0>> \o album


\* a process_file that does not look at the compilation flag
FileGroup_AnyFile(file) ==
    IF file.artist # None /\ file.album # None
    THEN Some(Group(file.artist[1], file.album[1]))
    ELSE None

\* process_file 152-166: the key of the aggregator of a file, if it gets one
FileGroup(file) ==
    IF ~file.compilation
    THEN IF file.artist # None
         THEN IF file.album # None
              THEN Some(Group(file.artist[1], file.album[1]))
              ELSE None
         ELSE None
    ELSE None


\* map.entry(group).or_insert_with(Default::default)
MapEntryOrInsert(m, group) ==
    IF group \in DOMAIN m
    THEN m
    ELSE m @@ (group :> Mutex_new(Aggregator_default))

Walking ==
    /\ mainPc = "walk"
    /\ nextPath \in Files
    /\ pending = None

\* process_file: no extension, or one that is neither mp3 nor m4a
SkipFile ==
    /\ Walking
    /\ nextPath' = nextPath + 1
    /\ UNCHANGED <<mainPc, exit, para, pending, map, tx1, queue, taken, idle, busy,
                   exited, results, consumed, norm, saved, log, unitVars>>

\* process_file: Mp3File::open / M4aFile::open fails; process logs it
TagOpenError ==
    /\ Walking
    /\ nextPath' = nextPath + 1
    /\ log' = log \cup {<<nextPath, "process">>}
    /\ UNCHANGED <<mainPc, exit, para, pending, map, tx1, queue, taken, idle, busy,
                   exited, results, consumed, norm, saved, unitVars>>

\* process_dir: read_dir or an entry fails; the rest of the directory, n - nextPath
\* paths, is not visited; process logs it
WalkError(n) ==
    /\ Walking
    /\ n > nextPath
    /\ nextPath' = n
    /\ log' = log \cup {<<nextPath, "process">>}
    /\ UNCHANGED <<mainPc, exit, para, pending, map, tx1, queue, taken, idle, busy,
                   exited, results, consumed, norm, saved, unitVars>>

\* process_file 145-166: the tags are read, the aggregator looked up or created
ProcessFile(tags) ==
    /\ Walking
    /\ LET file       == [id |-> nextPath, compilation |-> tags.compilation,
                          artist |-> tags.artist, album |-> tags.album]
           aggregator == FileGroup(file)
       IN  /\ map' = IF aggregator # None
                     THEN MapEntryOrInsert(map, aggregator[1])
                     ELSE map
           /\ pending' = Some(Entry_new(file, aggregator))
    /\ UNCHANGED <<mainPc, exit, para, nextPath, tx1, queue, taken, idle, busy,
                   exited, results, consumed, norm, saved, log, unitVars>>


\* a send on an unbounded work queue
SendEntry_Unbounded ==
    /\ mainPc = "walk"
    /\ pending # None
    /\ queue' = Append(queue, pending[1])
    /\ pending' = None
    /\ nextPath' = nextPath + 1
    /\ UNCHANGED <<mainPc, exit, para, map, tx1, taken, idle, busy, exited, results,
                   consumed, norm, saved, log, unitVars>>

\* process_file 168: tx.send(entry) returns once the bounded queue has room
SendEntry ==
    /\ mainPc = "walk"
    /\ pending # None
    /\ Len(queue) - taken < para
    /\ queue' = Append(queue, pending[1])
    /\ pending' = None
    /\ nextPath' = nextPath + 1
    /\ UNCHANGED <<mainPc, exit, para, map, tx1, taken, idle, busy, exited, results,
                   consumed, norm, saved, log, unitVars>>


\* a run that never drops tx1: the Sender stays alive while run joins
DropTx1_Kept ==
    /\ mainPc = "walk"
    /\ nextPath = MaxFiles + 1
    /\ pending = None
    /\ mainPc' = "join"
    /\ UNCHANGED <<exit, para, nextPath, pending, map, tx1, queue, taken, idle, busy,
                   exited, results, consumed, norm, saved, log, unitVars>>

\* run 72: drop(tx1) once every path is processed
DropTx1 ==
    /\ mainPc = "walk"
    /\ nextPath = MaxFiles + 1
    /\ pending = None
    /\ tx1' = FALSE
    /\ mainPc' = "join"
    /\ UNCHANGED <<exit, para, nextPath, pending, map, queue, taken, idle, busy,
                   exited, results, consumed, norm, saved, log, unitVars>>


\* a run that does not join its threads before it reads the results
Join_Skipped ==
    /\ mainPc = "join"
    /\ mainPc' = "consume"
    /\ UNCHANGED <<exit, para, nextPath, pending, map, tx1, queue, taken, idle, busy,
                   exited, results, consumed, norm, saved, log, unitVars>>

\* run 74-76: the joins return once every thread has returned
Join ==
    /\ mainPc = "join"
    /\ exited = para
    /\ mainPc' = "consume"
    /\ UNCHANGED <<exit, para, nextPath, pending, map, tx1, queue, taken, idle, busy,
                   exited, results, consumed, norm, saved, log, unitVars>>


\* a loop that returns the save error (entry.file.save()?) instead of logging it
Consume_Propagate(saveOk) ==
    /\ mainPc = "consume"
    /\ consumed < Len(results)
    /\ consumed' = consumed + 1
    /\ IF saveOk
       THEN UNCHANGED <<mainPc, exit, log>>
       ELSE /\ mainPc' = "done"
            /\ exit' = Some("FAILURE")
            /\ log' = log \cup {<<0, "main">>}
    /\ UNCHANGED <<para, nextPath, pending, map, tx1, queue, taken, idle, busy,
                   exited, results, norm, saved, unitVars>>

\* run 78-105: one turn of the loop over rx2.iter()
Consume(saveOk) ==
    /\ mainPc = "consume"
    /\ consumed < Len(results)
    /\ LET entry      == results[consumed + 1]
           id         == entry.file.id
           track_gain == Loudness_to_gain(Stats_get_mean(entry.stats[1], GateMinus10))
           track_peak == PeakField(entry.peak[1])
           shared     == entry.aggregator # None
           mutex      == map[entry.aggregator[1]]
           album_gain == IF shared
                         THEN Loudness_to_gain(Stats_get_mean(mutex.data.stats, GateMinus10))
                         ELSE track_gain
           album_peak == IF shared THEN PeakField(mutex.data.peak) ELSE track_peak
       IN  /\ shared => mutex.owner = None
           /\ norm' = [norm EXCEPT ![id] =
                         Append(@, Normalization(track_gain, album_gain,
                                                 track_peak, album_peak))]
           /\ saved' = [saved EXCEPT ![id] = Append(@, saveOk)]
           /\ log' = IF saveOk THEN log ELSE log \cup {<<id, "run">>}
    /\ consumed' = consumed + 1
    /\ UNCHANGED <<mainPc, exit, para, nextPath, pending, map, tx1, queue, taken,
                   idle, busy, exited, results, unitVars>>

\* rx2.iter() ends: the channel is empty and every Sender (one per worker) is
\* dropped; run returns Ok(()) and main returns ExitCode::SUCCESS
ConsumeEnd ==
    /\ mainPc = "consume"
    /\ consumed = Len(results)
    /\ exited = para
    /\ mainPc' = "done"
    /\ exit' = Some("SUCCESS")
    /\ UNCHANGED <<para, nextPath, pending, map, tx1, queue, taken, idle, busy,
                   exited, results, consumed, norm, saved, log, unitVars>>

(***************************************************************************)
(* analyzer (main.rs 173-209): the threads run the same code and hold no   *)
(* identity; one that holds an entry is told by its locals l               *)
(***************************************************************************)
Step(l, pc) ==
    [l EXCEPT !.pc = pc]

\* rx.iter() yields the next entry to a waiting thread
Recv ==
    /\ idle > 0
    /\ taken < Len(queue)
    /\ idle' = idle - 1
    /\ busy' = busy \cup {[pc |-> "open", entry |-> queue[taken + 1],
                            stats |-> None, peak |-> None]}
    /\ taken' = taken + 1
    /\ recvd' = [recvd EXCEPT ![queue[taken + 1].file.id] = @ + 1]
    /\ UNCHANGED <<mainPc, exit, para, nextPath, pending, map, tx1, queue, exited,
                   results, consumed, norm, saved, log, statsVars, analyzerVars,
                   fmtVars, tagVars, blockVars, frameVars, rangeVars, ringVars,
                   analyzed, merged>>

\* rx.iter() ends: the queue is empty and its Sender dropped; the thread returns
WorkerExit ==
    /\ idle > 0
    /\ taken = Len(queue)
    /\ ~tx1
    /\ idle' = idle - 1
    /\ exited' = exited + 1
    /\ UNCHANGED <<mainPc, exit, para, nextPath, pending, map, tx1, queue, taken,
                   busy, results, consumed, norm, saved, log, unitVars>>

\* 175-181: AudioReader::open fails; logged, continue
OpenError(l) ==
    /\ l.pc = "open"
    /\ log' = log \cup {<<l.entry.file.id, "analyzer">>}
    /\ busy' = busy \ {l}
    /\ idle' = idle + 1
    /\ UNCHANGED <<mainPc, exit, para, nextPath, pending, map, tx1, queue, taken,
                   exited, results, consumed, norm, saved, unitVars>>

\* 175-183: AudioReader::open succeeds, the Analyzer is built
Open(l) ==
    /\ l.pc = "open"
    /\ busy' = (busy \ {l}) \cup {Step(l, "read")}
    /\ UNCHANGED <<mainPc, exit, para, nextPath, pending, map, tx1, queue, taken, idle,
                   exited, results, consumed, norm, saved, log, unitVars>>


\* a read error that breaks out of the read loop with the analyzer flushed,
\* instead of continuing with the next entry
ReadError_Break(l) ==
    /\ l.pc = "read"
    /\ log' = log \cup {<<l.entry.file.id, "analyzer">>}
    /\ busy' = (busy \ {l}) \cup
                {[ pc    |-> IF l.entry.aggregator # None THEN "lock" ELSE "send",
                   entry |-> l.entry,
                   stats |-> Some(Silence.stats),
                   peak  |-> Some(Silence.peak) ]}
    /\ UNCHANGED <<mainPc, exit, para, nextPath, pending, map, tx1, queue, taken, idle,
                   exited, results, consumed, norm, saved, unitVars>>

\* 184-194: reader.read() fails before the end of the stream; logged, continue 'recv
ReadError(l) ==
    /\ l.pc = "read"
    /\ log' = log \cup {<<l.entry.file.id, "analyzer">>}
    /\ busy' = busy \ {l}
    /\ idle' = idle + 1
    /\ UNCHANGED <<mainPc, exit, para, nextPath, pending, map, tx1, queue, taken,
                   exited, results, consumed, norm, saved, unitVars>>

\* 184-195: every frame is read and added, analyzer.flush() returns (stats, peak)
Analyze(l, silent) ==
    /\ l.pc = "read"
    /\ LET track == IF silent THEN Silence ELSE Audio[l.entry.file.id]
       IN  busy' = (busy \ {l}) \cup
                   {[ pc    |-> IF l.entry.aggregator # None THEN "lock" ELSE "send",
                      entry |-> l.entry,
                      stats |-> Some(track.stats),
                      peak  |-> Some(track.peak) ]}
    /\ analyzed' = [analyzed EXCEPT ![l.entry.file.id] = @ + 1]
    /\ UNCHANGED <<mainPc, exit, para, nextPath, pending, map, tx1, queue, taken, idle,
                   exited, results, consumed, norm, saved, log, statsVars,
                   analyzerVars, fmtVars, tagVars, blockVars, frameVars, rangeVars,
                   ringVars, recvd, merged>>


\* a lock that does not wait for the mutex to be free
Lock_NoWait(l) ==
    /\ l.pc = "lock"
    /\ LET key == l.entry.aggregator[1]
       IN  map' = [map EXCEPT ![key].owner = Some(l.entry.file.id)]
    /\ busy' = (busy \ {l}) \cup {Step(l, "aggregate")}
    /\ UNCHANGED <<mainPc, exit, para, nextPath, pending, tx1, queue, taken, idle,
                   exited, results, consumed, norm, saved, log, unitVars>>

\* 198: aggregator.lock() returns the guard once the mutex is free
Lock(l) ==
    /\ l.pc = "lock"
    /\ LET key == l.entry.aggregator[1]
       IN  /\ map[key].owner = None
           /\ map' = [map EXCEPT ![key].owner = Some(l.entry.file.id)]
    /\ busy' = (busy \ {l}) \cup {Step(l, "aggregate")}
    /\ UNCHANGED <<mainPc, exit, para, nextPath, pending, tx1, queue, taken, idle,
                   exited, results, consumed, norm, saved, log, unitVars>>

\* 198: .aggregate(&stats, peak) through the guard, which is then dropped
Aggregate(l) ==
    /\ l.pc = "aggregate"
    /\ LET key == l.entry.aggregator[1]
       IN  map' = [map EXCEPT ![key] =
                     Mutex_new(Aggregator_aggregate(@.data, l.stats[1], l.peak[1]))]
    /\ busy' = (busy \ {l}) \cup {Step(l, "send")}
    /\ merged' = [merged EXCEPT ![l.entry.file.id] = @ + 1]
    /\ UNCHANGED <<mainPc, exit, para, nextPath, pending, tx1, queue, taken, idle,
                   exited, results, consumed, norm, saved, log, statsVars,
                   analyzerVars, fmtVars, tagVars, blockVars, frameVars, rangeVars,
                   ringVars, recvd, analyzed>>

\* a thread that sends its entry on the result channel twice
SendResult_Twice(l) ==
    /\ l.pc = "send"
    /\ LET entry == [l.entry EXCEPT !.stats = l.stats, !.peak = l.peak]
       IN  results' = Append(Append(results, entry), entry)
    /\ busy' = busy \ {l}
    /\ idle' = idle + 1
    /\ UNCHANGED <<mainPc, exit, para, nextPath, pending, map, tx1, queue, taken,
                   exited, consumed, norm, saved, log, unitVars>>

\* 201-207: the entry gets its stats and peak and is sent on the result channel
SendResult(l) ==
    /\ l.pc = "send"
    /\ results' = Append(results, [l.entry EXCEPT !.stats = l.stats, !.peak = l.peak])
    /\ busy' = busy \ {l}
    /\ idle' = idle + 1
    /\ UNCHANGED <<mainPc, exit, para, nextPath, pending, map, tx1, queue, taken,
                   exited, consumed, norm, saved, log, unitVars>>

WorkerThreads ==
    \/ Recv
    \/ WorkerExit
    \/ \E l \in busy :
          \/ OpenError(l)
          \/ Open(l)
          \/ ReadError(l)
          \/ \E silent \in BOOLEAN : Analyze(l, silent)
          \/ Lock(l)
          \/ Aggregate(l)
          \/ SendResult(l)

MainThread ==
    \/ \E p \in 1 .. MaxPara : RunStart(p)
    \/ RunFail
    \/ SkipFile
    \/ TagOpenError
    \/ \E n \in 2 .. MaxFiles + 1 : WalkError(n)
    \/ \E tags \in TagChoices : ProcessFile(tags)
    \/ SendEntry
    \/ DropTx1
    \/ Join
    \/ \E saveOk \in BOOLEAN : Consume(saveOk)
    \/ ConsumeEnd

Next ==
    \/ \E p \in 1 .. MaxPara : RunStart(p)
    \/ RunFail
    \/ SkipFile
    \/ TagOpenError
    \/ \E n \in 2 .. MaxFiles + 1 : WalkError(n)
    \/ \E tags \in TagChoices : ProcessFile(tags)
    \/ SendEntry
    \/ DropTx1
    \/ Join
    \/ \E saveOk \in BOOLEAN : Consume(saveOk)
    \/ ConsumeEnd
    \/ Recv
    \/ WorkerExit
    \/ \E l \in busy : OpenError(l)
    \/ \E l \in busy : Open(l)
    \/ \E l \in busy : ReadError(l)
    \/ \E l \in busy, silent \in BOOLEAN : Analyze(l, silent)
    \/ \E l \in busy : Lock(l)
    \/ \E l \in busy : Aggregate(l)
    \/ \E l \in busy : SendResult(l)

(***************************************************************************)
(* The Stats specification: add_sqs and merge applied, in any order, to    *)
(* two Stats that start as Stats::new().                                   *)
(***************************************************************************)
\* the powers added: below Power::MIN, on a key, between keys, above the top key
PowerInputs ==
    { <<1, 2>>, R(1), R(5), <<2001, 2>>, R(20000) }

AddSqs1(wmsq) ==
    /\ s1.pass1_count < MaxCount
    /\ s1' = Stats_add_sqs(s1, wmsq)
    /\ r1' = Stats_add_sqs(r1, wmsq)
    /\ lastOp' = "add_sqs"
    /\ UNCHANGED <<s2, in2, out, driverVars, analyzerVars, fmtVars, tagVars, blockVars,
                   frameVars, rangeVars, onceVars, ringVars>>

AddSqs2(wmsq) ==
    /\ s2.pass1_count < MaxCount
    /\ Len(in2) < MaxCount
    /\ s2' = Stats_add_sqs(s2, wmsq)
    /\ in2' = Append(in2, wmsq)
    /\ out' = None
    /\ UNCHANGED <<s1, lastOp, r1, driverVars, analyzerVars, fmtVars, tagVars,
                   blockVars, frameVars, rangeVars, onceVars, ringVars>>

\* s1.merge(&s2)
Merge ==
    /\ s1.pass1_count + s2.pass1_count <= MaxCount
    /\ s1' = Stats_merge(s1, s2)
    /\ r1' = FoldAdd(r1, in2)
    /\ lastOp' = "merge"
    /\ UNCHANGED <<s2, in2, out, driverVars, analyzerVars, fmtVars, tagVars, blockVars,
                   frameVars, rangeVars, onceVars, ringVars>>

\* s2.get_mean(-inf) and s2.get_range(-inf, 0.0, 1.0)
Query ==
    /\ out = None
    /\ out' = Some([ mean  |-> Stats_get_mean(s2, GateMinusInf),
                     range |-> Stats_get_range(s2, GateMinusInf, R(0), R(1)) ])
    /\ UNCHANGED <<s1, s2, lastOp, r1, in2, driverVars, analyzerVars, fmtVars, tagVars,
                   blockVars, frameVars, rangeVars, onceVars, ringVars>>

StatsNext ==
    \/ \E wmsq \in PowerInputs : AddSqs1(wmsq)
    \/ \E wmsq \in PowerInputs : AddSqs2(wmsq)
    \/ Merge
    \/ Query

(***************************************************************************)
(* The Analyzer specification: what an analyzer thread does with one file  *)
(* (main.rs 178-196): Analyzer::new, add_sample for every frame of the     *)
(* decoder, flush.                                                         *)
(***************************************************************************)
SampleRates ==
    { 10 * k : k \in 1 .. MaxDecaHz }

\* the frames of a decoder with the given number of channels: silence, and a
\* frame whose samples are -1/2 and 1/4 in turn
Frames(channels) ==
    { [ch \in 1 .. channels |-> R(0)],
      [ch \in 1 .. channels |-> IF ch % 2 = 1 THEN <<-1, 2>> ELSE <<1, 4>>] }

\* the one Block of the Analyzer's PreFilter
TheBlock ==
    an[1].filter.block[1]

New(sampling_rate, channels, partition) ==
    /\ an = None
    /\ an' = Some(Analyzer_new(sampling_rate, channels, partition))
    /\ UNCHANGED <<fed, zeros, calls, fin, ret, driverVars, statsVars, fmtVars,
                   tagVars, blockVars, frameVars, rangeVars, onceVars, ringVars>>

AddSample(sample, wssqs) ==
    /\ an # None
    /\ ret = None
    /\ fed < MaxFrames
    /\ Len(sample) = an[1].filter.channels
    /\ wssqs \in PreFilter_wssqs(an[1].filter, sample)
    /\ an' = Some(Analyzer_add_sample(an[1], sample, wssqs))
    /\ fed' = fed + 1
    /\ zeros' = (zeros /\ \A ch \in 1 .. Len(sample) : sample[ch] = R(0))
    /\ calls' = calls + 1
    /\ fin' = IF Block_complete(TheBlock) THEN Append(fin, calls + 1) ELSE fin
    /\ sent' = IF Len(sent) < 2 THEN Append(sent, wssqs) ELSE sent
    /\ seen' = seen \cup {sample[ch] : ch \in 1 .. Len(sample)}
    /\ UNCHANGED <<ret, driverVars, statsVars, fmtVars, tagVars, blockVars, rangeVars,
                   onceVars, ringVars>>

\* Analyzer::flush; an keeps the Analyzer as flush left it
Flush(wssqs) ==
    /\ an # None
    /\ ret = None
    /\ wssqs \in PreFilter_wssqs(an[1].filter, FlushFrame)
    /\ ret' = Some(Analyzer_flush(an[1], wssqs))
    /\ an' = Some([an[1] EXCEPT !.filter = PreFilter_flush(@, wssqs)])
    /\ calls' = IF 1 < an[1].filter.ring_size THEN calls + 1 ELSE calls
    /\ fin' = IF 1 < an[1].filter.ring_size /\ Block_complete(TheBlock)
              THEN Append(fin, calls + 1)
              ELSE fin
    /\ sent' = IF 1 < an[1].filter.ring_size /\ Len(sent) < 2
               THEN Append(sent, wssqs)
               ELSE sent
    /\ UNCHANGED <<fed, zeros, seen, driverVars, statsVars, fmtVars, tagVars,
                   blockVars, rangeVars, onceVars, ringVars>>

AnalyzerNext ==
    \/ \E sampling_rate \in SampleRates, channels \in 1 .. MaxChannels,
          partition \in 1 .. MaxPartition :
            New(sampling_rate, channels, partition)
    \/ \E channels \in 1 .. MaxChannels, wssqs \in {R(0), LoudEnergy} :
          \E sample \in Frames(channels) : AddSample(sample, wssqs)
    \/ \E wssqs \in {R(0), LoudEnergy} : Flush(wssqs)

AnalyzerSpec ==
    Init /\ [][AnalyzerNext]_vars

(***************************************************************************)
(* The formatter specification: the body of the consumer loop of run       *)
(* (main.rs 78-100) for one entry, given the gains and the peaks that      *)
(* get_mean(-10.0).to_gain() and the Analyzer produced for it.             *)
(***************************************************************************)
\* gains, each carried as 10^(-gain/10): 0, -10, -30, +10, -1.76.. (3/2), the
\* gain whose field is 1.5 before rounding, and +52, the gain of an empty
\* Stats
Gains ==
    { R(1), R(10), R(1000), <<1, 10>>, <<3, 2>>, <<3, 2000>>,
      Loudness_to_gain(Stats_get_mean(Stats_new, GateMinus10)) }

\* sample peaks
Peaks ==
    { R(0), <<3, 65536>>, <<1, 2>>, R(1) }

FmtInputs ==
    { [track_gain |-> tg, album_gain |-> ag, track_peak |-> tp, album_peak |-> ap] :
        tg \in Gains, ag \in Gains, tp \in Peaks, ap \in Peaks }

FmtInit ==
    /\ InitButEntry
    /\ fmtIn \in {Some(e) : e \in {i \in FmtInputs : ~RLess(i.album_peak, i.track_peak)}}

\* let normalization = format!(..)
Format ==
    /\ fmtIn # None
    /\ fmtOut = None
    /\ LET track_gain == fmtIn[1].track_gain
           album_gain == fmtIn[1].album_gain
           track_peak == PeakField(fmtIn[1].track_peak)
           album_peak == PeakField(fmtIn[1].album_peak)
           args == << adjust_gain(track_gain, 1000), adjust_gain(album_gain, 1000),
                      adjust_gain(track_gain, 2500), adjust_gain(album_gain, 2500),
                      track_peak, album_peak >>
       IN  fmtOut' = Some([ args |-> args,
                            normalization |->
                                format_normalization(args[1], args[2], args[3],
                                                     args[4], args[5], args[6]) ])
    /\ UNCHANGED <<fmtIn, driverVars, statsVars, analyzerVars, tagVars, blockVars,
                   frameVars, rangeVars, onceVars, ringVars>>

FmtNext ==
    Format

FmtSpec ==
    FmtInit /\ [][FmtNext]_vars

(***************************************************************************)
(* The tag specification: Mp3File and M4aFile (audio/mod.rs).  An id3 tag  *)
(* is the sequence of its frames, an mp4ameta tag the sequence of its      *)
(* items, each an identifier with the data atoms it holds.  The calls into *)
(* the two crates act as their documentation says.                         *)
(***************************************************************************)
\* id3::frame::Comment { lang, description, text }
Comment(lang, description, text) ==
    [id |-> "COMM", lang |-> lang, description |-> description, text |-> text]

\* TagLike::remove_comment(Some(description), None): every comment of that
\* description is removed, whatever its language and text
id3_remove_comment(tag, description) ==
    LET Keep(f) == ~(f.id = "COMM" /\ f.description = description)
    IN  SelectSeq(tag, Keep)

\* TagLike::add_frame: the frame is added, replacing the frames it conflicts
\* with (same id and, for comments, same language and description)
id3_add_frame(tag, frame) ==
    LET Keep(f) == ~(/\ f.id = frame.id
                     /\ f.id = "COMM" => /\ f.lang = frame.lang
                                         /\ f.description = frame.description)
    IN  Append(SelectSeq(tag, Keep), frame)

Mp3File_set_normalization(tag, val) ==
    id3_add_frame(id3_remove_comment(tag, "iTunNORM"),
                  Comment("eng", "iTunNORM", val))

\* mp4ameta::FreeformIdent::new("com.apple.iTunes", "iTunNORM")
FreeformIdent ==
    <<"com.apple.iTunes", "iTunNORM">>

\* mp4ameta::Data::Utf8
Utf8(val) ==
    [kind |-> "Utf8", value |-> val]

\* mp4ameta::Tag::add_data: the data is added to the item of the identifier
\* if there is one, next to the data it holds; otherwise an item is created
mp4_add_data(tag, ident, data) ==
    IF \E i \in 1 .. Len(tag) : tag[i].ident = ident
    THEN LET i == CHOOSE j \in 1 .. Len(tag) :
                      /\ tag[j].ident = ident
                      /\ \A k \in 1 .. j - 1 : tag[k].ident # ident
         IN  [tag EXCEPT ![i].data = Append(@, data)]
    ELSE Append(tag, [ident |-> ident, data |-> <<data>>])

M4aFile_set_normalization(tag, val) ==
    mp4_add_data(tag, FreeformIdent, Utf8(val))

\* AudioFile::set_normalization of either kind of file
set_normalization(kind, tag, val) ==
    IF kind = "mp3"
    THEN Mp3File_set_normalization(tag, val)
    ELSE M4aFile_set_normalization(tag, val)

\* tags of mp3 files: without an iTunNORM comment, with one, with several (in
\* two languages), and with other frames around them
Mp3Tags ==
    LET artist == [id |-> "TPE1", text |-> "A"]
        note   == Comment("eng", "note", "hi")
        old    == Comment("eng", "iTunNORM", "old")
        alt    == Comment("jpn", "iTunNORM", "alt")
    IN  { <<>>, <<artist>>, <<artist, note>>, <<old>>, <<artist, old, note>>,
          <<old, artist, alt, note>> }

\* tags of m4a files: without an iTunNORM item, with one that holds one data
\* atom, with one that holds several
M4aTags ==
    LET artist == [ident |-> <<"fourcc", "ART">>, data |-> <<Utf8("A")>>]
        old    == [ident |-> FreeformIdent, data |-> <<Utf8("old")>>]
        two    == [ident |-> FreeformIdent, data |-> <<Utf8("old"), Utf8("alt")>>]
    IN  { <<>>, <<artist>>, <<old>>, <<artist, old>>, <<two, artist>> }

\* the texts written: what format! may produce, shortened
NormTexts ==
    { "N1", "N2", "N3" }

\* Mp3File::open, M4aFile::open
OpenTag(kind, tag) ==
    /\ tagFile = None
    /\ tagFile' = Some([kind |-> kind, tag |-> tag])
    /\ opened' = Some(tag)
    /\ UNCHANGED <<once, texts, driverVars, statsVars, analyzerVars, fmtVars,
                   blockVars, frameVars, rangeVars, onceVars, ringVars>>

\* entry.file.set_normalization(&normalization), once per run of the tool
SetNormalization(val) ==
    /\ tagFile # None
    /\ Len(texts) < MaxWrites
    /\ LET tag == set_normalization(tagFile[1].kind, tagFile[1].tag, val)
       IN  /\ tagFile' = Some([tagFile[1] EXCEPT !.tag = tag])
           /\ once' = IF texts = <<>> THEN Some(tag) ELSE once
    /\ texts' = Append(texts, val)
    /\ UNCHANGED <<opened, driverVars, statsVars, analyzerVars, fmtVars, blockVars,
                   frameVars, rangeVars, onceVars, ringVars>>

TagNext ==
    \/ \E tag \in Mp3Tags : OpenTag("mp3", tag)
    \/ \E tag \in M4aTags : OpenTag("m4a", tag)
    \/ \E val \in NormTexts : SetNormalization(val)

TagSpec ==
    Init /\ [][TagNext]_vars

(***************************************************************************)
(* The Block specification: a Block on its own, built by Block::new and    *)
(* given one value after another by add_sqs, as PreFilter::add_sample does *)
(* for every frame.                                                        *)
(***************************************************************************)
\* the values of wssqs: none, the one that makes a block of the gate's power
\* when every frame has it, and a loud one
BlockEnergies ==
    { R(0), PowerMIN, LoudEnergy }

BlockNew(overlap_size, partition) ==
    /\ blk = None
    /\ blk' = Some(Block_new(overlap_size, partition))
    /\ UNCHANGED <<energies, done, driverVars, statsVars, analyzerVars, fmtVars,
                   tagVars, frameVars, rangeVars, onceVars, ringVars>>

\* block.add_sqs(wssqs)
BlockAddSqs(wssqs) ==
    /\ blk # None
    /\ Len(energies) < MaxCalls
    /\ blk' = Some(Block_add_sqs(blk[1], wssqs))
    /\ energies' = Append(energies, wssqs)
    /\ done' = IF Block_complete(blk[1])
               THEN Append(done, [call  |-> Len(energies) + 1,
                                  power |-> Block_prev_wmsq(blk[1], wssqs)])
               ELSE done
    /\ UNCHANGED <<driverVars, statsVars, analyzerVars, fmtVars, tagVars, frameVars,
                   rangeVars, onceVars, ringVars>>

BlockNext ==
    \/ \E overlap_size \in 1 .. MaxOverlap, partition \in 1 .. MaxRing :
          BlockNew(overlap_size, partition)
    \/ \E wssqs \in BlockEnergies : BlockAddSqs(wssqs)

BlockSpec ==
    Init /\ [][BlockNext]_vars

(***************************************************************************)
(* The range specification: get_range of a Stats for quantiles given in    *)
(* either order, inside and outside of [0, 1].                             *)
(***************************************************************************)
QuantileInputs ==
    { R(-2), R(-1), R(0), <<1, 10>>, <<1, 2>>, <<19, 20>>, R(1), <<3, 2>>, R(2) }

\* the block powers of the Stats asked: none, one, two in one cell, and
\* three in three cells
RangeInputs ==
    { <<>>, <<R(5)>>, <<R(5), R(1)>>, <<R(1), R(20), <<2001, 2>>>> }

\* stats.get_range(-inf, lower, upper)
GetRange(powers, lower, upper) ==
    /\ rangeOut = None
    /\ rangeOut' = Some([ powers |-> powers, lower |-> lower, upper |-> upper,
                          quantiles |-> Quantiles(lower, upper),
                          range |-> Stats_get_range(FoldAdd(Stats_new, powers),
                                                    GateMinusInf, lower, upper) ])
    /\ UNCHANGED <<driverVars, statsVars, analyzerVars, fmtVars, tagVars,
                   blockVars, frameVars, onceVars, ringVars>>

RangeNext ==
    \E powers \in RangeInputs, lower \in QuantileInputs, upper \in QuantileInputs :
        GetRange(powers, lower, upper)

RangeSpec ==
    Init /\ [][RangeNext]_vars

(***************************************************************************)
(* The ring specification: the ring_buf of a new PreFilter, one channel,   *)
(* given one frame after another by add_sample.                            *)
(***************************************************************************)
RingSamples ==
    { R(0), <<1, 2>> }

\* filter.add_sample(&[sample])
RingAddSample(sample) ==
    /\ Len(pfIn) < MaxSamples
    /\ pf' = Ring_add_sample(pf, Len(pfIn) + 1, sample)
    /\ pfIn' = Append(pfIn, sample)
    /\ pfRead' = IF 1 < pf.ring_size
                 THEN Some(Ring_reads(pf, Len(pfIn) + 1, sample))
                 ELSE None
    /\ UNCHANGED <<driverVars, statsVars, analyzerVars, fmtVars, tagVars,
                   blockVars, frameVars, rangeVars, onceVars>>

RingNext ==
    \E sample \in RingSamples : RingAddSample(sample)

RingSpec ==
    Init /\ [][RingNext]_vars

StatsSpec ==
    Init /\ [][StatsNext]_vars

Spec ==
    Init /\ [][Next]_vars

\* the threads are scheduled fairly: the main thread takes a step when it can,
\* and so does one of the analyzer threads when one can
FairSpec ==
    /\ Spec
    /\ WF_vars(MainThread)
    /\ WF_vars(WorkerThreads)

(***************************************************************************)
(* Properties                                                              *)
(***************************************************************************)
\* the entries the producer has built so far: those sent and the one in send
Entries ==
    {queue[i] : i \in 1 .. Len(queue)} \cup {pending[i] : i \in 1 .. Len(pending)}

\* the Stats of the first n results of the group key, merged in channel order
RECURSIVE GroupStats(_, _)
GroupStats(key, n) ==
    IF n = 0
    THEN Stats_new
    ELSE IF results[n].aggregator = Some(key)
         THEN Stats_merge(GroupStats(key, n - 1), results[n].stats[1])
         ELSE GroupStats(key, n - 1)

\* the largest peak among the first n results of the group key
RECURSIVE GroupPeak(_, _)
GroupPeak(key, n) ==
    IF n = 0
    THEN R(0)
    ELSE IF results[n].aggregator = Some(key)
         THEN RMax(GroupPeak(key, n - 1), results[n].peak[1])
         ELSE GroupPeak(key, n - 1)

\* the results of the group key
Members(key) ==
    {i \in 1 .. Len(results) : results[i].aggregator = Some(key)}

RECURSIVE SumOver(_, _)
SumOver(f, S) ==
    IF S = {} THEN 0
    ELSE LET x == CHOOSE y \in S : TRUE IN f[x] + SumOver(f, S \ {x})

\* the text set_normalization received for the i-th result
NormOf(i) ==
    norm[results[i].file.id][1]

Quiescent ==
    para > 0 /\ exited = para

\* C10: after any sequence of add_sqs and merge on Stats that start as
\* Stats::new(), the counts of the histogram cells sum to pass1_count.
C10_BinsSumToCount ==
    /\ SumBins(s1, BinCount) = s1.pass1_count
    /\ SumBins(s2, BinCount) = s2.pass1_count

\* a merge of two Stats that both hold blocks, in different cells or the same
C10_Witness ==
    /\ lastOp = "merge"
    /\ s2.pass1_count > 0
    /\ s1.pass1_count > s2.pass1_count
    /\ s1.pass1_count = MaxCount

\* C8: the exit code is FAILURE only when run fails before any path is
\* processed (available_parallelism); once the threads are spawned every
\* per-file error is logged and the process ends with SUCCESS.
C8_ExitCode ==
    /\ exit # None => mainPc = "done"
    /\ mainPc = "done" => exit # None
    /\ exit = Some("FAILURE") =>
          /\ para = 0
          /\ nextPath = 1
          /\ queue = <<>>
          /\ log = {<<0, "main">>}
    /\ (mainPc = "done" /\ para > 0) => exit = Some("SUCCESS")
    /\ \A r \in log : r[2] \in {"process", "analyzer", "run"} => exit # Some("FAILURE")

\* a run that ends with SUCCESS although a decode and a save failed
C8_Witness ==
    /\ exit = Some("SUCCESS")
    /\ \E f, g \in Files : f # g /\ <<f, "analyzer">> \in log /\ <<g, "run">> \in log

\* C9: at most para entries are in the work queue; a send on a full queue
\* waits and completes once a worker has received an entry, the entry being
\* neither dropped nor reordered; a send on the result channel never waits.
C9_BoundedQueue ==
    /\ [](Len(queue) - taken <= para)
    /\ []((pending # None /\ Len(queue) - taken = para) => ~ENABLED SendEntry)
    /\ []((pending # None /\ Len(queue) - taken < para) => ENABLED SendEntry)
    /\ [](\A l \in busy : l.pc = "send" => ENABLED SendResult(l))
    /\ [][pending # None =>
             ( \/ (pending' = pending /\ queue' = queue)
               \/ (pending' = None /\ queue' = Append(queue, pending[1])) )]_vars
    /\ [][taken' # taken =>
             ( /\ taken' = taken + 1
               /\ \E l \in busy' \ busy : l.entry = queue[taken'] )]_vars

\* the producer holds an entry while the queue is full
C9_Witness ==
    /\ pending # None
    /\ para > 0
    /\ Len(queue) - taken = para

\* C6: a compilation file gets no aggregator, whatever its artist and album,
\* and its album fields repeat its track fields.
C6_Compilation ==
    /\ \A e \in Entries : e.file.compilation => e.aggregator = None
    /\ \A l \in busy : l.entry.file.compilation => l.pc \notin {"lock", "aggregate"}
    /\ \A i \in 1 .. consumed :
          results[i].file.compilation =>
             /\ results[i].aggregator = None
             /\ NormOf(i)[1] = NormOf(i)[2]
             /\ NormOf(i)[3] = NormOf(i)[4]
             /\ NormOf(i)[7] = NormOf(i)[8]

\* a compilation file written next to a grouped file of the same artist and
\* album whose gain differs
C6_Witness ==
    /\ consumed = 2
    /\ \E i, j \in 1 .. 2 :
          /\ results[i].file.compilation
          /\ results[j].aggregator # None
          /\ results[i].file.artist = results[j].file.artist
          /\ results[i].file.album = results[j].file.album
          /\ NormOf(i)[1] # NormOf(j)[2]

\* C3: the consumer receives its first entry only after the work queue's
\* Sender is dropped and every analyzer thread has returned; from then on no
\* aggregator is changed.
C3_ConsumeAfterJoin ==
    /\ []((consumed > 0 \/ mainPc = "consume") =>
             /\ ~tx1
             /\ exited = para
             /\ idle = 0
             /\ busy = {}
             /\ taken = Len(queue))
    /\ [][(mainPc = "consume" \/ mainPc = "done") => (map' = map /\ results' = results)]_vars

\* the consumer has read an aggregator that two tracks were merged into
C3_Witness ==
    /\ consumed > 0
    /\ \E key \in DOMAIN map :
          /\ results[1].aggregator = Some(key)
          /\ Cardinality(Members(key)) = 2
          /\ map[key].data.stats.pass1_count = 3

\* the album gain of the group key: the gain of the merge of its results
GroupGain(key) ==
    Loudness_to_gain(Stats_get_mean(GroupStats(key, Len(results)), GateMinus10))

\* C2: the entries written for one group carry the same album fields B and
\* D, and these are the gain of the merge of the Stats of every track of the
\* group that was analyzed, whatever the order the threads merged them in.
C2_AlbumGain ==
    \A i \in 1 .. consumed :
       results[i].aggregator # None =>
          LET key == results[i].aggregator[1]
          IN  /\ NormOf(i)[2] = adjust_gain(GroupGain(key), 1000)
              /\ NormOf(i)[4] = adjust_gain(GroupGain(key), 2500)
              /\ NormOf(i)[8] = PeakField(GroupPeak(key, Len(results)))
              /\ \A j \in 1 .. consumed :
                    results[j].aggregator = Some(key) =>
                       /\ NormOf(j)[2] = NormOf(i)[2]
                       /\ NormOf(j)[4] = NormOf(i)[4]

\* two tracks of one group, of different loudness, are both written, the one
\* merged first being the second of the walk
C2_Witness ==
    /\ consumed = 2
    /\ results[1].aggregator # None
    /\ results[1].aggregator = results[2].aggregator
    /\ results[1].file.id > results[2].file.id
    /\ NormOf(1)[1] # NormOf(2)[1]
    /\ NormOf(1)[2] # NormOf(1)[1]
    /\ NormOf(2)[2] # NormOf(2)[1]

\* the file of an entry was given up by its analyzer thread
Failed(f) ==
    <<f, "analyzer">> \in log

\* C4: an entry whose open or read fails is logged, merged into no
\* aggregator, never sent to the consumer and never written; the others are
\* still analyzed and written once.
C4_FailedEntry ==
    /\ \A f \in Files :
          Failed(f) =>
             /\ \A i \in 1 .. Len(results) : results[i].file.id # f
             /\ \A l \in busy : l.entry.file.id # f
             /\ norm[f] = <<>>
             /\ saved[f] = <<>>
    /\ Quiescent =>
          \A key \in DOMAIN map :
             /\ map[key].data.stats = GroupStats(key, Len(results))
             /\ map[key].data.peak = GroupPeak(key, Len(results))
    /\ exit = Some("SUCCESS") =>
          \A i \in 1 .. Len(queue) :
             LET f == queue[i].file.id
             IN  \/ Failed(f)
                 \/ /\ \E j \in 1 .. Len(results) : results[j].file.id = f
                    /\ Len(norm[f]) = 1
                    /\ Len(saved[f]) = 1

\* of two tracks of one group the first fails and the second is written
C4_Witness ==
    /\ exit = Some("SUCCESS")
    /\ Len(queue) = 2
    /\ queue[1].aggregator # None
    /\ queue[1].aggregator = queue[2].aggregator
    /\ Failed(queue[1].file.id)
    /\ Len(norm[queue[2].file.id]) = 1
    /\ map[queue[1].aggregator[1]].data.stats.pass1_count > 0

\* the threads that hold the guard of the mutex of the group key
Holders(key) ==
    {l \in busy : l.pc = "aggregate" /\ l.entry.aggregator = Some(key)}

\* C5: aggregate calls on one aggregator exclude one another, and once the
\* threads have returned its pass1_count and cell counts are the sums, and
\* its max_wmsq and peak the maxima, over the tracks merged into it.
C5_Aggregate ==
    \A key \in DOMAIN map :
       /\ Cardinality(Holders(key)) <= 1
       /\ map[key].owner = None <=> Holders(key) = {}
       /\ \A l \in Holders(key) : map[key].owner = Some(l.entry.file.id)
       /\ Quiescent =>
             LET a == map[key].data
                 M == Members(key)
             IN  /\ a.stats.pass1_count =
                       SumOver([i \in M |-> results[i].stats[1].pass1_count], M)
                 /\ \A b \in Bins :
                       a.stats.bins[b].count =
                          SumOver([i \in M |-> results[i].stats[1].bins[b].count], M)
                 /\ \A i \in M :
                       /\ ~RLess(a.stats.max_wmsq, results[i].stats[1].max_wmsq)
                       /\ ~RLess(a.peak, results[i].peak[1])
                 /\ M # {} =>
                       /\ \E i \in M : a.stats.max_wmsq = results[i].stats[1].max_wmsq
                       /\ \E i \in M : a.peak = results[i].peak[1]

\* two threads have merged two tracks into one aggregator, one waiting for
\* the other at the lock
C5_Witness ==
    /\ Quiescent
    /\ \E key \in DOMAIN map :
          /\ Cardinality(Members(key)) = 2
          /\ map[key].data.stats.pass1_count = 3
          /\ para = 2

\* two threads of which one holds the guard and the other waits at the lock
C5_Contended ==
    \E key \in DOMAIN map :
       /\ Holders(key) # {}
       /\ \E l \in busy : l.pc = "lock" /\ l.entry.aggregator = Some(key)

\* a tag that is present and holds at least one character
NonEmpty(tag) ==
    tag # None /\ tag[1] # <<>>

\* C7: an entry gets an aggregator if and only if its file is not a
\* compilation and its artist and album tags are both non-empty; the
\* aggregator is then the one of the key artist, NUL, album, which every such
\* file of that artist and album shares.
C7_AggregatorIffNonEmpty ==
    \A e \in Entries :
       /\ e.aggregator # None <=>
             (~e.file.compilation /\ NonEmpty(e.file.artist) /\ NonEmpty(e.file.album))
       /\ e.aggregator # None =>
             /\ e.aggregator = Some(Group(e.file.artist[1], e.file.album[1]))
             /\ e.aggregator[1] \in DOMAIN map
       /\ \A d \in Entries :
             (e.aggregator # None /\ d.aggregator # None
                /\ d.file.artist = e.file.artist /\ d.file.album = e.file.album)
             => d.aggregator = e.aggregator

\* a file whose artist tag is the empty string is sent with an aggregator,
\* and a second file with the same tags shares it
C7_EmptyArtistGrouped ==
    /\ Len(queue) = 2
    /\ queue[1].file.artist = Some(<<>>)
    /\ ~queue[1].file.compilation
    /\ queue[1].aggregator = Some(Group(<<>>, queue[1].file.album[1]))
    /\ queue[2].aggregator = queue[1].aggregator

Done ==
    mainPc = "done"

\* C1: under fair scheduling every run ends, whatever fails on the way: once
\* the work queue's Sender is dropped the threads drain the queue and return,
\* the joins return and the loop over the results ends; the producer waiting
\* on the full queue and the threads never block one another for good.
C1_Terminates ==
    /\ <>Done
    /\ (~tx1) ~> (taken = Len(queue) /\ exited = para /\ consumed = Len(results) /\ Done)

\* a run has ended after the producer waited on the full queue, a decode
\* failed and a save failed
C1_Witness ==
    /\ Done
    /\ para = 1
    /\ Len(queue) = 2
    /\ Failed(queue[1].file.id)
    /\ <<queue[2].file.id, "run">> \in log

\* C11: merging two Stats gives the Stats that adding all their powers to one
\* Stats gives: the same max_wmsq, pass1_count and cell counts, and the same
\* pass1_wmsq as an exact mean.
C11_MergeIsAdd ==
    s1 = r1

\* two Stats that both hold blocks, of different powers, were merged
C11_Witness ==
    /\ lastOp = "merge"
    /\ s2.pass1_count = 2
    /\ s1.pass1_count = 3
    /\ s1.pass1_wmsq # s2.pass1_wmsq
    /\ \E i \in Bins : s1.bins[i].count = 1 /\ s2.bins[i].count = 0

\* C12: after any sequence of add_sqs calls max_wmsq is at least every power
\* added and at least Power::MIN.
C12_MaxBoundsInputs ==
    /\ ~RLess(s2.max_wmsq, PowerMIN)
    /\ \A i \in 1 .. Len(in2) : ~RLess(s2.max_wmsq, in2[i])

\* a power below Power::MIN, one inside the cells and one above the top cell
\* were added
C12_Witness ==
    /\ Len(in2) = 3
    /\ \E i, j, k \in 1 .. 3 :
          /\ RLess(in2[i], PowerMIN)
          /\ in2[j] = R(5)
          /\ RLess(BinKey(BinCount), in2[k])
          /\ s2.max_wmsq = in2[k]

\* the cells of s2 that hold blocks
Occupied ==
    {i \in Bins : s2.bins[i].count > 0}

SetMin(S) ==
    CHOOSE x \in S : \A y \in S : x <= y

\* C14: after a non-empty sequence of powers get_range(-inf, 0, 1) is the
\* difference between the lower edges of the highest and of the lowest
\* occupied cell.
C14_RangeIsMaxMinusMin ==
    (out # None /\ Occupied # {}) =>
       out[1].range = Loudness_sub(BinDb(SetMax(Occupied)), BinDb(SetMin(Occupied)))

\* get_range(-inf, 0, 1) of one block: the range is the lower edge of its
\* cell, min having stayed Loudness(0.0)
C14_RangeOfOneBlock ==
    /\ out # None
    /\ in2 = <<R(5)>>
    /\ out[1].range = BinDb(1)
    /\ out[1].range # LoudnessZero

\* the ratio between the lower edges of two neighbouring cells
CellWidth ==
    Pow10(1)

\* a power the cells span: from Power::MIN to the upper edge of the top cell
InCells(wmsq) ==
    /\ ~RLess(wmsq, PowerMIN)
    /\ RLess(wmsq, RMul(BinKey(BinCount), R(CellWidth)))

\* get_mean(-inf) lies within one cell width below Loudness(pass1_wmsq);
\* the two are compared as powers
MeanWithinCell ==
    LET mean == PowerFromLoudness(out[1].mean)
    IN  /\ ~RLess(s2.pass1_wmsq, mean)
        /\ RLess(s2.pass1_wmsq, RMul(mean, R(CellWidth)))

C13_FinalizedEveryOverlap ==
    an # None =>
        LET o == TheBlock.overlap_size
            p == TheBlock.ring_size
        IN  /\ Len(fin) = IF calls < p * o THEN 0 ELSE (calls - p * o) \div o + 1
            /\ \A i \in 1 .. Len(fin) : fin[i] = (p + i - 1) * o

\* 20 frames a second and partition 4 (overlap_size 2): blocks are complete at
\* the calls 8, 10 and 12
C13_Witness ==
    /\ an # None
    /\ TheBlock.overlap_size = 2
    /\ TheBlock.ring_size = 4
    /\ fin = <<8, 10, 12>>

\* C16: for a track of all-zero frames, of any length and channel count, the
\* Stats that flush returns has counted no block, get_mean(-10) of it is
\* Loudness::MIN, and the peak field of the track is 0.
C16_SilenceIsEmpty ==
    (ret # None /\ zeros) =>
        /\ ret[1].stats.pass1_count = 0
        /\ Stats_get_mean(ret[1].stats, GateMinus10) = LoudnessMIN
        /\ PeakField(ret[1].peak) = 0

\* two channels of silence, long enough for three complete blocks
C16_Witness ==
    /\ ret # None
    /\ zeros
    /\ an[1].filter.channels = 2
    /\ fed > 0
    /\ Len(fin) = 3

\* C17: if the decoder delivers fewer than partition * overlap_size frames,
\* then after flush no block was complete and the Stats returned is empty
\* (pass1_count 0, every cell 0), so that get_mean(-10) is Loudness::MIN.
C17_ShortTrackIsEmpty ==
    (ret # None /\ fed < TheBlock.ring_size * TheBlock.overlap_size) =>
        /\ fin = <<>>
        /\ ret[1].stats.pass1_count = 0
        /\ \A i \in Bins : ret[1].stats.bins[i].count = 0
        /\ Stats_get_mean(ret[1].stats, GateMinus10) = LoudnessMIN

\* a track one frame short of a block: the zero frame that flush adds
\* completes the block, and the block is counted
C17_OneFrameShort ==
    /\ ret # None
    /\ TheBlock.ring_size = 4
    /\ fed = TheBlock.ring_size * TheBlock.overlap_size - 1
    /\ fin = <<fed + 1>>
    /\ ret[1].stats.pass1_count = 1

\* tracks at least two frames short of a block leave the Stats empty
C17_TwoFramesShort ==
    (ret # None /\ fed + 1 < TheBlock.ring_size * TheBlock.overlap_size) =>
        /\ fin = <<>>
        /\ ret[1].stats = Stats_new

(***************************************************************************)
(* The iTunNORM string                                                     *)
(***************************************************************************)
\* the text format! produced for the entry
Text ==
    fmtOut[1].normalization

\* C18 as stated: the iTunNORM string written for any entry is exactly 100
\* characters long.
C18_Length100 ==
    fmtOut # None => Len(Text) = 100

\* C18 as the code has it: the iTunNORM string written for any entry is
\* exactly 90 characters long, ten times a space and 8 digits.
C18_Length90 ==
    fmtOut # None => Len(Text) = 90

\* an entry whose gain fields are clamped and whose peaks are full scale
C18_Witness ==
    /\ fmtOut # None
    /\ fmtOut[1].args = <<65534, 65534, 65534, 65534, 32768, 32768>>
    /\ Len(Text) = 90

UpperHex ==
    { "0", "1", "2", "3", "4", "5", "6", "7", "8", "9",
      "A", "B", "C", "D", "E", "F" }

\* the number a sequence of hexadecimal digits denotes
RECURSIVE HexValue(_)
HexValue(t) ==
    IF t = <<>>
    THEN 0
    ELSE 16 * HexValue(SubSeq(t, 1, Len(t) - 1))
            + (CHOOSE d \in 0 .. 15 : HexDigits[d + 1] = t[Len(t)])

\* the characters of field k of a text made of ten times a space and 8 digits
Field(text, k) ==
    SubSeq(text, 9 * k - 7, 9 * k)

\* C19: for every entry, whatever its gains and peaks, the string begins with
\* a space and consists of exactly ten fields, each preceded by one space and
\* made of exactly 8 uppercase hexadecimal digits, which denote in this order
\* A, B, C, D, 0, 0, E, F, 0, 0.
C19_TenFields ==
    fmtOut # None =>
        LET e == fmtIn[1]
            fields == Normalization(e.track_gain, e.album_gain,
                                    PeakField(e.track_peak), PeakField(e.album_peak))
        IN  /\ Len(Text) = 9 * 10
            /\ \A k \in 1 .. 10 :
                    /\ Text[9 * k - 8] = " "
                    /\ \A j \in 9 * k - 7 .. 9 * k : Text[j] \in UpperHex
                    /\ HexValue(Field(Text, k)) = fields[k]

\* the entry of an empty Stats (track gain +52) in an album of gain -10
C19_Witness ==
    /\ fmtOut # None
    /\ fmtIn[1].track_gain = Loudness_to_gain(LoudnessMIN)
    /\ fmtIn[1].album_gain = R(10)
    /\ fmtIn[1].album_peak = <<1, 2>>
    /\ Field(Text, 1) = Zeros8
    /\ Field(Text, 2) = << "0", "0", "0", "0", "2", "7", "1", "0" >>
    /\ Field(Text, 8) = << "0", "0", "0", "0", "4", "0", "0", "0" >>

\* value is x = 10^(-gain/10) * base rounded to the nearest integer, halves
\* upwards, or 65534 if that is smaller
RoundedMin(value, gain, base) ==
    LET x == RMul(gain, R(base))
    IN  IF value < 65534
        THEN /\ (2 * value - 1) * x[2] <= 2 * x[1]
             /\ 2 * x[1] < (2 * value + 1) * x[2]
        ELSE /\ value = 65534
             /\ (2 * 65534 - 1) * x[2] <= 2 * x[1]

\* C20: adjust_gain(gain, base) is min(round(10^(-gain/10) * base), 65534): it
\* is never above 65534 and never negative, adjust_gain(0, 1000) = 1000,
\* adjust_gain(-10, 1000) = 10000 and adjust_gain(-30, 1000) = 65534.
C20_AdjustGain ==
    fmtOut # None =>
        LET e == fmtIn[1]
            a == fmtOut[1].args
        IN  /\ \A k \in 1 .. 4 : a[k] \in 0 .. 65534
            /\ RoundedMin(a[1], e.track_gain, 1000)
            /\ RoundedMin(a[2], e.album_gain, 1000)
            /\ RoundedMin(a[3], e.track_gain, 2500)
            /\ RoundedMin(a[4], e.album_gain, 2500)
            /\ e.track_gain = R(1) => a[1] = 1000
            /\ e.track_gain = R(10) => a[1] = 10000
            /\ e.track_gain = R(1000) => a[1] = 65534

\* a track of gain -30, clamped, in an album whose field is 1.5 before rounding
C20_Witness ==
    /\ fmtOut # None
    /\ fmtIn[1].track_gain = R(1000)
    /\ fmtIn[1].album_gain = <<3, 2000>>
    /\ fmtOut[1].args[1] = 65534
    /\ fmtOut[1].args[2] = 2
    /\ fmtOut[1].args[4] = 4

(***************************************************************************)
(* The peak fields                                                         *)
(***************************************************************************)
\* round(peak * 32768)
RoundedPeak(peak) ==
    RRound(RMul(peak, R(32768)))

\* C21: the peak fields are rounded to nearest: for every entry written the
\* track peak E is round(peak * 32768), and for an entry with an aggregator
\* the album peak F is round(max of the group's peaks * 32768).
C21_PeakRounded ==
    \A i \in 1 .. consumed :
        /\ NormOf(i)[7] = RoundedPeak(results[i].peak[1])
        /\ results[i].aggregator # None =>
              NormOf(i)[8] =
                  RoundedPeak(GroupPeak(results[i].aggregator[1], Len(results)))

\* a track of peak 3/65536, for which peak * 32768 is 1.5, is written with
\* the peak field 1
C21_Truncated ==
    \E i \in 1 .. consumed :
        /\ results[i].peak[1] = <<3, 65536>>
        /\ NormOf(i)[7] = 1
        /\ RoundedPeak(results[i].peak[1]) = 2

(***************************************************************************)
(* Tags                                                                    *)
(***************************************************************************)
\* the frame or item f of a tag belongs to the iTunNORM comment
IsNorm(kind, f) ==
    IF kind = "mp3"
    THEN f.id = "COMM" /\ f.description = "iTunNORM"
    ELSE f.ident = FreeformIdent

\* the texts of the iTunNORM comments a tag holds, in order
RECURSIVE NormComments(_, _)
NormComments(kind, tag) ==
    IF tag = <<>>
    THEN <<>>
    ELSE LET f == Head(tag)
             here == IF ~IsNorm(kind, f) THEN <<>>
                     ELSE IF kind = "mp3" THEN <<f.text>>
                     ELSE [i \in 1 .. Len(f.data) |-> f.data[i].value]
         IN  here \o NormComments(kind, Tail(tag))

\* the other fields of a tag
OtherFields(kind, tag) ==
    LET Other(f) == ~IsNorm(kind, f)
    IN  SelectSeq(tag, Other)

\* the tag holds one iTunNORM comment, of the text last written, and its
\* other fields are those it was read with
OneComment(kind, tag) ==
    /\ NormComments(kind, tag) = <<texts[Len(texts)]>>
    /\ OtherFields(kind, tag) = OtherFields(kind, opened[1])

\* C22: set_normalization(text) adds or replaces: after calling it on a tag
\* in any prior state, for MP3 and for M4A, the tag holds exactly one iTunNORM
\* comment, of that text, every other field is unchanged, and calling it
\* twice with one text gives the tag that calling it once gives.
C22_AddsOrReplaces ==
    texts # <<>> =>
        /\ OneComment(tagFile[1].kind, tagFile[1].tag)
        /\ (\A i \in 1 .. Len(texts) : texts[i] = texts[1]) =>
              tagFile[1].tag = once[1]

\* an m4a file without an iTunNORM item, written twice with one text, holds
\* the text twice
C22_M4aAppends ==
    /\ tagFile # None
    /\ tagFile[1].kind = "m4a"
    /\ NormComments("m4a", opened[1]) = <<>>
    /\ texts = <<"N1", "N1">>
    /\ NormComments("m4a", tagFile[1].tag) = <<"N1", "N1">>
    /\ tagFile[1].tag # once[1]

\* for mp3 files the statement of C22 holds
C22_Mp3AddsOrReplaces ==
    (texts # <<>> /\ tagFile[1].kind = "mp3") => C22_AddsOrReplaces

(***************************************************************************)
(* Block                                                                   *)
(***************************************************************************)
\* the sum of the n values of a sequence that end at position last
RECURSIVE SumBefore(_, _, _)
SumBefore(seq, last, n) ==
    IF n = 0 THEN R(0) ELSE RAdd(SumBefore(seq, last - 1, n - 1), seq[last])

\* C23: every complete block has the power that is the arithmetic mean of
\* exactly the partition * overlap_size most recent values add_sqs received,
\* the first blocks after the ramp-up included.
C23_BlockPowerIsMean ==
    \A i \in 1 .. Len(done) :
        LET n == blk[1].ring_size * blk[1].overlap_size
        IN  /\ n <= done[i].call
            /\ done[i].power = RDivInt(SumBefore(energies, done[i].call, n), n)

\* partition 3, overlap_size 2: the blocks complete at the calls 6 and 8 have
\* different powers, each the mean of six values
C23_Witness ==
    /\ blk # None
    /\ blk[1].ring_size = 3
    /\ blk[1].overlap_size = 2
    /\ Len(done) = 2
    /\ done[1] = [call |-> 6, power |-> <<20, 3>>]
    /\ done[2] = [call |-> 8, power |-> <<41, 6>>]

(***************************************************************************)
(* PreFilter and Analyzer: the first frames, flush, the peak               *)
(***************************************************************************)
\* C24: the first two frames fed to a new PreFilter produce no wssqs: the
\* energy forwarded to the blocks for the first and for the second frame is
\* 0 whatever the samples are; the biquads act from the third frame on.
C24_FirstTwoFramesSilent ==
    \A i \in 1 .. Len(sent) : sent[i] = R(0)

\* the second frame of a decoder is filtered and forwards energy
C24_SecondFrameFiltered ==
    /\ an # None
    /\ fed = 2
    /\ calls = 2
    /\ sent = <<R(0), LoudEnergy>>

\* the first frame produces no wssqs
C24_FirstFrameSilent ==
    sent # <<>> => sent[1] = R(0)

\* C25: flush feeds exactly one more all-zero frame if at least two frames
\* were processed and none if fewer than two were: a block receives n + 1
\* frame energies for n >= 2 frames of the decoder and n for n < 2.
C25_FlushFeedsAfterTwo ==
    ret # None => calls = IF fed >= 2 THEN fed + 1 ELSE fed

\* a track of one frame: flush feeds a second frame to the block
C25_OneFrameFlushed ==
    /\ ret # None
    /\ fed = 1
    /\ calls = 2

\* flush feeds one more frame if and only if a frame was processed
C25_FlushFeedsAfterOne ==
    ret # None => calls = IF fed >= 1 THEN fed + 1 ELSE fed

(***************************************************************************)
(* get_range: the quantiles                                                *)
(***************************************************************************)
\* C26: for every pair (lower_q, upper_q), given in either order, with both
\* values below 0 or both above 1 included, the quantiles get_range uses
\* satisfy 0 <= lower <= upper <= 1.
C26_QuantilesClamped ==
    rangeOut # None =>
        LET lower == rangeOut[1].quantiles[1]
            upper == rangeOut[1].quantiles[2]
        IN  /\ ~RLess(lower, R(0))
            /\ ~RLess(upper, lower)
            /\ ~RLess(R(1), upper)

\* both quantiles above 1: get_range(-inf, 3/2, 2) uses lower = 3/2 and
\* upper = 1
C26_BothAboveOne ==
    /\ rangeOut # None
    /\ rangeOut[1].lower = <<3, 2>>
    /\ rangeOut[1].upper = R(2)
    /\ rangeOut[1].quantiles = << <<3, 2>>, R(1) >>

\* pairs with a value in [0, 1], in either order, are clamped as C26 says
C26_OneInRange ==
    (/\ rangeOut # None
     /\ \E q \in {rangeOut[1].lower, rangeOut[1].upper} :
           ~RLess(q, R(0)) /\ ~RLess(R(1), q)) =>
        /\ C26_QuantilesClamped
        /\ rangeOut[1].quantiles =
              Quantiles_Clamped(rangeOut[1].lower, rangeOut[1].upper)

(***************************************************************************)
(* Stats::add_sqs: the effect of one call                                  *)
(***************************************************************************)
\* the cell whose key is the greatest key <= w, for w >= Power::MIN
FloorCell(w) ==
    CHOOSE k \in Bins :
        /\ ~RLess(w, BinKey(k))
        /\ k < BinCount => RLess(w, BinKey(k + 1))

\* the effect C27 states for add_sqs(w) on the Stats s2
AddSqsEffect(w) ==
    IF ~RLess(w, PowerMIN)
    THEN /\ s2'.pass1_count = s2.pass1_count + 1
         /\ \A i \in Bins :
               s2'.bins[i].count =
                   s2.bins[i].count + (IF i = FloorCell(w) THEN 1 ELSE 0)
         /\ \A i \in Bins : s2'.bins[i].db = s2.bins[i].db
    ELSE s2' = s2

\* C27: add_sqs(w) counts w if and only if w >= Power::MIN: it then adds one
\* to pass1_count and to exactly one cell, the one whose key is the greatest
\* key <= w (the highest cell for powers above the highest key), and leaves
\* the other cells as they are; for w < Power::MIN the whole Stats is left
\* unchanged.
C27_AddSqsEffect ==
    [][Len(in2') = Len(in2) + 1 => AddSqsEffect(in2'[Len(in2')])]_vars

\* powers below Power::MIN, inside a cell and above the highest key were
\* added: two are counted, one of them in the highest cell
C27_Witness ==
    /\ in2 = << <<1, 2>>, R(20000), R(5) >>
    /\ s2.pass1_count = 2
    /\ s2.bins[BinCount].count = 1
    /\ s2.bins[1].count = 1

(***************************************************************************)
(* Block::add_sqs: the gate                                                *)
(***************************************************************************)
\* the effect C28 states for a call of add_sqs that finds a complete block
\* of power p: the Stats counts it if and only if p is above the gate, the
\* block's place in the ring is zeroed and the front moves on to it
GateEffect(p) ==
    LET next == (blk[1].ring_offs + 1) % blk[1].ring_size
    IN  /\ IF RLess(PowerMIN, p)
           THEN /\ blk'[1].stats.pass1_count = blk[1].stats.pass1_count + 1
                /\ blk'[1].stats = Stats_add_sqs(blk[1].stats, p)
           ELSE blk'[1].stats = blk[1].stats
        /\ blk'[1].ring_wmsq[next] = R(0)
        /\ blk'[1].ring_offs = next
        /\ blk'[1].ring_count = 0

\* C28: a complete block is submitted to the Stats of the Block if and only
\* if its power is strictly greater than the gate Power::MIN; a block at or
\* below the gate changes nothing in the Stats, while its place in the ring
\* is still zeroed and the front pointer still advances.
C28_GateIsStrict ==
    [][Len(done') = Len(done) + 1 => GateEffect(done'[Len(done')].power)]_vars

\* three complete blocks: one of exactly the gate's power and one below it,
\* both dropped, and one above it, counted
C28_Witness ==
    /\ blk # None
    /\ Len(done) = 3
    /\ \E i \in 1 .. 3 : done[i].power = PowerMIN
    /\ \E i \in 1 .. 3 : RLess(done[i].power, PowerMIN)
    /\ \E i \in 1 .. 3 : RLess(PowerMIN, done[i].power)
    /\ blk[1].stats.pass1_count = 1

(***************************************************************************)
(* Analyzer: the peak                                                      *)
(***************************************************************************)
\* the largest absolute value of a set of samples, 0 for no sample
PeakOf(samples) ==
    IF samples = {}
    THEN R(0)
    ELSE CHOOSE m \in {RAbs(f) : f \in samples} :
             \A f \in samples : ~RLess(m, RAbs(f))

\* C29: after any sequence of add_sample calls the peak of the Analyzer is
\* the largest absolute value of every sample of every frame fed so far (0
\* if none), it never decreases, and flush returns it unchanged: the zero
\* frame flush gives the filter does not alter it.
C29_PeakIsMaxAbs ==
    /\ [](an # None => an[1].peak = PeakOf(seen))
    /\ [](ret # None => ret[1].peak = PeakOf(seen))
    /\ [][(an # None /\ an' # None) => ~RLess(an'[1].peak, an[1].peak)]_vars

\* flush has fed its zero frame after a loud frame and then silent ones, and
\* returns the loud frame's peak 1/2 (from the sample -1/2)
C29_Witness ==
    /\ ret # None
    /\ fed >= 3
    /\ calls = fed + 1
    /\ seen = {R(0), <<-1, 2>>, <<1, 4>>}
    /\ ret[1].peak = <<1, 2>>

(***************************************************************************)
(* The two channels: every entry exactly once                              *)
(***************************************************************************)
\* the places of a file's entry in a channel
Places(channel, id) ==
    {i \in 1 .. Len(channel) : channel[i].file.id = id}

\* the threads that hold a file's entry
HoldersOf(id) ==
    {l \in busy : l.entry.file.id = id}

\* what C30 states of one file
OnceFor(id) ==
    LET sentAt   == Places(queue, id)
        resultAt == Places(results, id)
        shared   == \E i \in sentAt : queue[i].aggregator # None
        past     == \A l \in HoldersOf(id) : l.pc = "send"
    IN  /\ Cardinality(sentAt) <= 1
        /\ recvd[id] = Cardinality({i \in sentAt : i <= taken})
        /\ Cardinality(HoldersOf(id)) <= recvd[id]
        /\ analyzed[id] <= recvd[id]
        /\ Cardinality(resultAt) =
              (IF analyzed[id] = 1 /\ HoldersOf(id) = {} THEN 1 ELSE 0)
        /\ merged[id] = (IF shared /\ analyzed[id] = 1 /\ past THEN 1 ELSE 0)
        /\ Len(norm[id]) = Cardinality({i \in resultAt : i <= consumed})
        /\ Len(saved[id]) = Len(norm[id])
        /\ exit = Some("SUCCESS") =>
              /\ recvd[id] = Cardinality(sentAt)
              /\ Len(norm[id]) = analyzed[id]

\* C30: every entry the producer enqueues is dequeued by exactly one worker;
\* every entry analyzed successfully appears exactly once on the result
\* channel, is merged into its aggregator exactly once and has
\* set_normalization and save called exactly once by the consumer; no entry
\* is analyzed or written twice.
C30_ExactlyOnce ==
    /\ Cardinality(busy) + idle + exited = para
    /\ \A id \in Files : OnceFor(id)

\* a finished run of two threads and two files of one album: both were
\* received, analyzed, merged and written once
C30_Witness ==
    /\ exit = Some("SUCCESS")
    /\ para = 2
    /\ \A id \in Files :
         /\ recvd[id] = 1
         /\ analyzed[id] = 1
         /\ merged[id] = 1
         /\ Len(norm[id]) = 1
         /\ Len(saved[id]) = 1
    /\ Len(results) = MaxFiles
    /\ results[1].file.id = 2

(***************************************************************************)
(* Stats::get_range: the sign of the result                                *)
(***************************************************************************)
\* C31: get_range never returns a negative loudness difference: for every
\* Stats built by add_sqs and all quantiles, the returned max - min is at
\* least 0.
C31_RangeNonNegative ==
    rangeOut # None => ~RLess(rangeOut[1].range, LoudnessZero)

\* two blocks in the lowest cell and the quantiles 1/10 and 19/20: the lower
\* count is 0, min stays Loudness(0.0) and the result is the cell's loudness,
\* which is below 0
C31_NegativeRange ==
    /\ rangeOut # None
    /\ rangeOut[1].powers = <<R(5), R(1)>>
    /\ rangeOut[1].lower = <<1, 10>>
    /\ rangeOut[1].upper = <<19, 20>>
    /\ RLess(rangeOut[1].range, LoudnessZero)

(***************************************************************************)
(* PreFilter::add_sample: the indices of ring_buf                          *)
(***************************************************************************)
\* the nine indices add_sample uses for a value of ring_offs
Indices(offs) ==
    << x_(offs, 0), x_(offs, -1), x_(offs, -2),
       y_(offs, 0), y_(offs, -1), y_(offs, -2),
       z_(offs, 0), z_(offs, -1), z_(offs, -2) >>

\* what frame k stored as x[0], y[0] or z[0]: the first frame stores its
\* input only, and before the first frame the buffer holds Power(0.0)
Stored(role, k) ==
    CASE k < 1 \/ (k < 2 /\ role # "x") -> Unwritten
      [] role = "x" -> Slot_x(k, pfIn[k])
      [] role = "y" -> Slot_y(k)
      [] OTHER      -> Slot_z(k)

\* C32: for every ring_offs in 0 .. 8 the nine indices x_(offs, 0 .. -2),
\* y_(offs, 0 .. -2), z_(offs, 0 .. -2) are pairwise distinct and within
\* 0 .. 8, and after any sequence of frames the slots read as x[-1], x[-2],
\* y[-1], y[-2], z[-1], z[-2] hold exactly what was stored as x[0], y[0],
\* z[0] one and two frames earlier (what the buffer held at first, where no
\* such frame stored any): no slot is overwritten before it is last read,
\* across the wrap of ring_offs from 8 to 0.
C32_RingHistory ==
    /\ \A offs \in 0 .. BUF_SIZE - 1 :
         /\ \A k \in 1 .. 9 : Indices(offs)[k] \in 0 .. BUF_SIZE - 1
         /\ Cardinality({Indices(offs)[k] : k \in 1 .. 9}) = 9
    /\ pf.ring_offs \in 0 .. BUF_SIZE - 1
    /\ pfRead # None =>
         LET n == Len(pfIn)
         IN  /\ pfRead[1].x1 = Stored("x", n - 1)
             /\ pfRead[1].x2 = Stored("x", n - 2)
             /\ pfRead[1].y1 = Stored("y", n - 1)
             /\ pfRead[1].y2 = Stored("y", n - 2)
             /\ pfRead[1].v1 = Stored("y", n - 1)
             /\ pfRead[1].v2 = Stored("y", n - 2)
             /\ pfRead[1].z1 = Stored("z", n - 1)
             /\ pfRead[1].z2 = Stored("z", n - 2)

\* the tenth frame, at ring_offs 1 after the wrap: x[-1] is slot 0 and x[-2]
\* slot 8, and they hold the inputs of the ninth and the eighth frame
C32_Witness ==
    /\ Len(pfIn) = 10
    /\ pf.ring_offs = 2
    /\ pfIn[8] = <<1, 2>>
    /\ pfIn[9] = R(0)
    /\ pfRead # None
    /\ pfRead[1].x1 = Slot_x(9, R(0))
    /\ pfRead[1].x2 = Slot_x(8, <<1, 2>>)
    /\ pfRead[1].z2 = Slot_z(8)
    /\ pf.ring_buf[8] = Slot_x(8, <<1, 2>>)

====
